---- MODULE Spec2Model ----
(***************************************************************************)
(* The channel link of htlcswitch/link.go: the htlcManager event loop, its *)
(* handlers (handleDownStreamPkt, handleUpstreamMsg, processLockedInHtlcs, *)
(* updateCommitTx), the overflow queue and the log-commit timer.           *)
(*                                                                         *)
(* The lnwallet channel state machine, the packet queue, the switch, the   *)
(* invoice registry and the peer are collaborators of the link.  Each call *)
(* into them is recorded, in program order, in lastOps (the calls made by  *)
(* the handler that ran last); what a collaborator answers is either fixed *)
(* by the little state kept for it here (commitment slots, revocation      *)
(* window) or an input of the action.                                      *)
(***************************************************************************)
EXTENDS Integers, Sequences, FiniteSets, TLC

\* ------------------------------------------------------------------ bounds
MaxHTLCNumber == 4          \* commitment slots of the channel machine
MaxPkts == 2                \* downstream Adds the switch submits
MaxRemovals == 1            \* Settles and Fails the peer sends
MaxIncoming == 1            \* upstream Adds the peer sends
QueuePkts == 4              \* the same two, for the runs on the overflow queue
QueueRemovals == 4
MaxCalls == 2               \* calls of Start, and of Stop
MaxUpdates == 1             \* calls of UpdateForwardingPolicy
MaxRestored == 2            \* incoming HTLCs active when the link reconnects
HtlcAmt == 4                \* the amount of every HTLC, in millisatoshi
DrainPkts == 3              \* Adds and removals of the runs that drain the queue
DrainRemovals == 2
MaxFee == 25                \* fee rates the fee estimator and the channel may have

\* ------------------------------------------------------- program constants
expiryGraceDelta == 2
BatchThreshold == 10
FeeScale == 1000000
\* The word sizes, scaled to the model checker's integers: uint32 (heights,
\* time-locks, batchCounter) wraps at Mod32, uint64 (lnwire.MilliSatoshi) at Mod64.
Mod32 == 2 ^ 16
Mod64 == 2 ^ 30

\* -------------------------------------------------------------- arithmetic
Sub32(a, b) == (a - b + Mod32) % Mod32
Add32(a, b) == (a + b) % Mod32
Sub64(a, b) == (a - b + Mod64) % Mod64
Add64(a, b) == (a + b) % Mod64
Mul64(a, b) == (a * b) % Mod64

ExpectedFee(f, htlcAmt) == Add64(f.BaseFee, Mul64(htlcAmt, f.FeeRate) \div FeeScale)

\* A faulty shouldAdjustCommitFee: only a rise of the network fee counts.
shouldAdjustCommitFeeUpOnly(netFee, chanFee) ==
    netFee > chanFee /\ netFee >= chanFee + ((chanFee * 10) \div 100)

shouldAdjustCommitFee(netFee, chanFee) ==
    \/ netFee > chanFee /\ netFee >= chanFee + ((chanFee * 10) \div 100)
    \/ netFee < chanFee /\ netFee <= chanFee - ((chanFee * 10) \div 100)

\* ------------------------------------------------------------ call records
\* One call made by a handler: k its kind, n its name, r its result, i an index.
Op(k, n, r, i) == [k |-> k, n |-> n, r |-> r, i |-> i]

Ev(name, qlen)      == Op("ev", name, "", qlen)
Cm(name, res, idx)  == Op("cm", name, res, idx)
Send(msg, idx)      == Op("send", msg, "", idx)
Circuit(idx)        == Op("circuit", "addCircuit", "", idx)
Forward(kind, idx)  == Op("fwd", kind, "", idx)
Enqueue(id)         == Op("enq", "AddPkt", "", id)
Signal              == Op("signal", "SignalFreeSlot", "", 0)
Fail                == Op("fail", "Disconnect", "", 0)
Uct(res)            == Op("uct", "updateCommitTx", res, 0)
Registry(name, res) == Op("reg", name, res, 0)
Timer(what)         == Op("timer", what, "", 0)
SendFail(why, idx)  == Op("send", "UpdateFailHTLC", why, idx)
Cache               == Op("cache", "AddPreimage", "", 0)
Publish             == Op("pub", "htlcUpdates", "", 0)
Dequeue(id)         == Op("deq", "outgoingPkts", "", id)
Query(name, answer) == Op("query", name, IF answer THEN "true" ELSE "false", 0)
Sample(res, feePerKw) == Op("fee", "sampleNetworkFee", res, feePerKw)

VARIABLES
    started,        \* atomic flag set by Start
    shutdown,       \* atomic flag set by Stop
    quit,           \* the quit channel is closed
    pc,             \* htlcManager: "idle", "resync", "sync", "loop", "publish", "exited"
    batchCounter,
    bestHeight,
    policy,         \* cfg.FwrdingPolicy
    cfg,            \* cfg.DebugHTLC, cfg.HodlHTLC, cfg.SyncStates
    logCommitTick,  \* "nil", "armed" (timer running), "expired" (tick consumed)
    overflowQueue,  \* packets waiting for a commitment slot, head first
    freeSlots,      \* free-slot signals not yet consumed by the queue
    failed,         \* fail() has disconnected the peer
    channel,        \* the channel state machine
    inc,            \* incoming HTLCs by index: what became of each
    circuits,       \* the switch's circuit map: outgoing index -> registrations
    nextPkt,        \* id of the next Add the switch submits
    sentAdds,       \* packet ids of the wire Adds, in the order sent
    queued,         \* ids of the packets that went through the overflow queue
    lastOps,        \* the calls of the handler that ran last, in program order
    calls,          \* Start and Stop: the calls made and how each went
    cmd,            \* UpdateForwardingPolicy: the caller and its policyUpdate
    syncErr,        \* what syncChanStates returned: "none" (not run), "nil", "err"
    htlcs,          \* what the last handler got from the channel machine:
                    \* the descriptors of ReceiveRevocation, or ActiveHtlcs
    calc            \* the last call of a fee function: its arguments and result

vars == <<started, shutdown, quit, pc, batchCounter, bestHeight, policy, cfg,
          logCommitTick, overflowQueue, freeSlots, failed, channel, inc,
          circuits, nextPkt, sentAdds, queued, lastOps, htlcs, calls, cmd, syncErr, calc>>

\* ---------------------------------------------------------- initial state
InitialPolicy == [MinHTLC |-> 5, BaseFee |-> 1, FeeRate |-> 500000, TimeLockDelta |-> 3]

Configs == {[DebugHTLC |-> FALSE, HodlHTLC |-> FALSE, SyncStates |-> FALSE]}

\* The link of a channel that is reconnected: it may have to resynchronise.
SyncConfigs == [DebugHTLC : {FALSE}, HodlHTLC : {FALSE}, SyncStates : BOOLEAN]

ZeroPolicy == [MinHTLC |-> 0, BaseFee |-> 0, FeeRate |-> 0, TimeLockDelta |-> 0]

\* No fee function has been called.
NoCalc == [fn |-> "", args |-> <<>>, out |-> 0]

\* NewChannelLink over a channel that may already carry outgoing HTLCs.
NewChannel(nOpen, funds) ==
    [window       |-> TRUE,       \* SignNextCommitment has a revocation window
     owes         |-> FALSE,      \* a commitment of the peer awaits our signature
     awaits       |-> FALSE,      \* updates we signed await the peer's signature
     localUpdates |-> 0,          \* local Add/Settle/Fail entries not yet signed
     nextIndex    |-> nOpen,      \* index AddHTLC assigns next
     lockedUpTo   |-> 0,          \* outgoing HTLCs below it left the commitment
     resolving    |-> 0,          \* removals the peer sent, not yet locked in
     lockedIn     |-> {},         \* incoming HTLCs reported as locked in
     stopped      |-> FALSE,
     feeRate      |-> 10000,
     balance      |-> funds]      \* AvailableBalance: lowered by each Add accepted

InitWith(configs, funds) ==
    /\ started = 0
    /\ shutdown = 0
    /\ quit = FALSE
    /\ pc = "idle"
    /\ batchCounter = 0
    /\ bestHeight = 10
    /\ policy = InitialPolicy
    /\ cfg \in configs
    /\ logCommitTick = "nil"
    /\ overflowQueue = <<>>
    /\ freeSlots = 0
    /\ failed = FALSE
    /\ channel = NewChannel(MaxHTLCNumber, funds)
    /\ inc = [h \in 0 .. MaxIncoming - 1 |-> "none"]
    /\ circuits = [x \in {} |-> 0]
    /\ nextPkt = 1
    /\ sentAdds = <<>>
    /\ queued = {}
    /\ lastOps = <<>>
    /\ htlcs = <<>>
    /\ calls = [start |-> 0, startErr |-> 0, launched |-> 0,
                stop |-> 0, stopNoop |-> 0, closes |-> 0,
                waiting |-> 0, returned |-> 0]
    /\ cmd = [at |-> "idle", policy |-> ZeroPolicy, done |-> FALSE, n |-> 0]
    /\ syncErr = "none"
    /\ calc = NoCalc

Init == InitWith(Configs, 100)

\* ------------------------------------------------- the state of a handler
\* A handler works on a record of the fields it may change; ops collects its
\* calls and exit says that it left the loop (break out).  batch, needUpdate
\* and aborted are the locals of processLockedInHtlcs (packetsToForward,
\* needUpdate, and whether it returned nil early).
Cur(ev) ==
    [batchCounter |-> batchCounter, logCommitTick |-> logCommitTick,
     overflowQueue |-> overflowQueue, freeSlots |-> freeSlots,
     failed |-> failed, channel |-> channel, inc |-> inc,
     circuits |-> circuits, sentAdds |-> sentAdds, queued |-> queued,
     bestHeight |-> bestHeight, ops |-> <<ev>>, exit |-> FALSE,
     batch |-> <<>>, needUpdate |-> FALSE, aborted |-> FALSE,
     htlcs |-> <<>>]

Do(s, op) == [s EXCEPT !.ops = Append(@, op)]

Done(s, nextPc) ==
    /\ batchCounter' = s.batchCounter
    /\ logCommitTick' = s.logCommitTick
    /\ overflowQueue' = s.overflowQueue
    /\ freeSlots' = s.freeSlots
    /\ failed' = s.failed
    /\ channel' = s.channel
    /\ inc' = s.inc
    /\ circuits' = s.circuits
    /\ sentAdds' = s.sentAdds
    /\ queued' = s.queued
    /\ bestHeight' = s.bestHeight
    /\ lastOps' = s.ops
    /\ htlcs' = s.htlcs
    /\ pc' = IF s.exit THEN "exited" ELSE nextPc

\* fail: log the reason and disconnect the peer.
fail(s) == Do([s EXCEPT !.failed = TRUE], Fail)

\* ----------------------------------------------------------- packet queue
QueueCapacity == MaxHTLCNumber \div 2

\* AddPkt appends at the tail.
AddPkt(s, pkt) ==
    Do([s EXCEPT !.overflowQueue = Append(@, pkt), !.queued = @ \cup {pkt.id}],
       Enqueue(pkt.id))

\* SignalFreeSlot: a signal is kept only while the queue holds a packet.
SignalFreeSlot(s) ==
    Do(IF Len(s.overflowQueue) = 0 THEN s ELSE [s EXCEPT !.freeSlots = @ + 1],
       Signal)

\* TotalHtlcAmount: the sum of the amounts of the packets that wait.
RECURSIVE TotalHtlcAmount(_)
TotalHtlcAmount(queue) ==
    IF queue = <<>> THEN 0 ELSE Add64(Head(queue).amt, TotalHtlcAmount(Tail(queue)))

\* ------------------------------------------------------ the channel machine
AvailableBalance(c) == c.balance

SlotsUsed(c) == c.nextIndex - c.lockedUpTo

\* A local Add, Settle or Fail entered the local update log.
LocalUpdate(c) == [c EXCEPT !.localUpdates = @ + 1]

\* FullySynced: the tips of the two commitment chains agree.
FullySynced(c) == ~c.owes /\ ~c.awaits

\* SignNextCommitment: "ErrNoWindow" while a commitment of ours is unrevoked.
SignNextCommitment(c, err) ==
    IF ~c.window THEN "ErrNoWindow" ELSE IF err THEN "err" ELSE "ok"

Signed(c) ==
    [c EXCEPT !.window = FALSE, !.localUpdates = 0, !.owes = FALSE,
              !.awaits = @ \/ c.localUpdates > 0]

\* AddHTLC: "ErrMaxHTLCNumber" when the commitment has no slot left, another
\* error when the balance does not cover the amount.
AddHTLC(c, amt, err) ==
    IF SlotsUsed(c) >= MaxHTLCNumber THEN "ErrMaxHTLCNumber"
    ELSE IF err \/ amt > c.balance THEN "err" ELSE "ok"

\* ---------------------------------------------------------- updateCommitTx
\* A faulty updateCommitTx: the CommitSig is sent, batchCounter is not reset.
updateCommitTxKeepsCount(s, signErr) ==
    LET res == SignNextCommitment(s.channel, signErr) IN
    IF res = "ErrNoWindow"
    THEN Do(Do(s, Cm("SignNextCommitment", res, 0)), Uct("nowindow"))
    ELSE IF res = "err"
    THEN Do(Do(s, Cm("SignNextCommitment", res, 0)), Uct("err"))
    ELSE LET s1 == Do(Do([s EXCEPT !.channel = Signed(@)],
                         Cm("SignNextCommitment", "ok", 0)),
                      Send("CommitSig", 0))
         IN  Do(Do([s1 EXCEPT !.logCommitTick = "nil"], Timer("clear")), Uct("sent"))

updateCommitTx(s, signErr) ==
    LET res == SignNextCommitment(s.channel, signErr) IN
    IF res = "ErrNoWindow"
    THEN Do(Do(s, Cm("SignNextCommitment", res, 0)), Uct("nowindow"))
    ELSE IF res = "err"
    THEN Do(Do(s, Cm("SignNextCommitment", res, 0)), Uct("err"))
    ELSE LET s1 == Do(Do([s EXCEPT !.channel = Signed(@)],
                         Cm("SignNextCommitment", "ok", 0)),
                      Send("CommitSig", 0))
             s2 == Do([s1 EXCEPT !.logCommitTick = "nil"], Timer("clear"))
         IN  Do([s2 EXCEPT !.batchCounter = 0], Uct("sent"))

\* The result updateCommitTx returned, read off the calls of s.
CommitFailed(s) == s.ops[Len(s.ops)] = Uct("err")

\* ------------------------------------------------------ handleDownStreamPkt
\* A faulty AddAccepted: the wire Add leaves before the circuit is registered.
AddAcceptedSendFirst(s, pkt, index) ==
    LET s1 == Do([s EXCEPT !.sentAdds = Append(@, pkt.id)],
                 Send("UpdateAddHTLC", index))
    IN  Do([s1 EXCEPT !.circuits = @ @@ (index :> 1)], Circuit(index))

\* The Add was taken by the channel machine at `index`: register the circuit,
\* then send the wire Add.
AddAccepted(s, pkt, index) ==
    LET s1 == Do([s EXCEPT !.circuits =
                      IF index \in DOMAIN @
                      THEN [@ EXCEPT ![index] = @ + 1]
                      ELSE @ @@ (index :> 1)],
                 Circuit(index))
    IN  Do([s1 EXCEPT !.sentAdds = Append(@, pkt.id)], Send("UpdateAddHTLC", index))

\* The Add was refused for another reason than the slots: a Fail packet goes
\* back to the switch, unless the failure could not be encoded.
AddRefused(s, pkt, encErr) ==
    IF encErr THEN s
    ELSE Do(s, Forward(IF pkt.obf THEN "Fail" ELSE "LocalFail", pkt.id))

\* A faulty CountAndCommit: the batch is signed one update late.
CountAndCommitLate(s, isSettle, signErr) ==
    LET s1 == [s EXCEPT !.batchCounter = (@ + 1) % Mod32] IN
    IF s1.batchCounter > BatchThreshold \/ isSettle
    THEN LET s2 == updateCommitTx(s1, signErr)
         IN  IF CommitFailed(s2) THEN fail(s2) ELSE s2
    ELSE s1

\* The tail of handleDownStreamPkt: count the update, sign when due.
CountAndCommit(s, isSettle, signErr) ==
    LET s1 == [s EXCEPT !.batchCounter = (@ + 1) % Mod32] IN
    IF s1.batchCounter >= BatchThreshold \/ isSettle
    THEN LET s2 == updateCommitTx(s1, signErr)
         IN  IF CommitFailed(s2) THEN fail(s2) ELSE s2
    ELSE s1

\* A faulty handleDownStreamAdd: an Add put into the queue is counted.
handleDownStreamAddCounts(s, pkt, in) ==
    LET res == AddHTLC(s.channel, pkt.amt, in.cmErr)
        idx == s.channel.nextIndex
        s0  == Do(s, Cm("AddHTLC", res, IF res = "ok" THEN idx ELSE 0))
    IN  IF res = "ErrMaxHTLCNumber"
        THEN [AddPkt(s0, pkt) EXCEPT !.batchCounter = (@ + 1) % Mod32]
        ELSE IF res = "err" THEN AddRefused(s0, pkt, in.encErr)
        ELSE CountAndCommit(
                 AddAccepted([s0 EXCEPT !.channel =
                                  LocalUpdate([@ EXCEPT !.nextIndex = @ + 1,
                                                        !.balance = @ - pkt.amt])],
                             pkt, idx),
                 FALSE, in.signErr)

handleDownStreamAdd(s, pkt, in) ==
    LET res == AddHTLC(s.channel, pkt.amt, in.cmErr)
        idx == s.channel.nextIndex
        s0  == Do(s, Cm("AddHTLC", res, IF res = "ok" THEN idx ELSE 0))
    IN  IF res = "ErrMaxHTLCNumber" THEN AddPkt(s0, pkt)
        ELSE IF res = "err" THEN AddRefused(s0, pkt, in.encErr)
        ELSE CountAndCommit(
                 AddAccepted([s0 EXCEPT !.channel =
                                  LocalUpdate([@ EXCEPT !.nextIndex = @ + 1,
                                                        !.balance = @ - pkt.amt])],
                             pkt, idx),
                 FALSE, in.signErr)

handleDownStreamSettle(s, pkt, in) ==
    IF in.cmErr
    THEN fail(Do([s EXCEPT !.inc[pkt.idx] = "stuck"],
                 Cm("SettleHTLC", "err", pkt.idx)))
    ELSE CountAndCommit(
             Do(Do([s EXCEPT !.channel = LocalUpdate(@), !.inc[pkt.idx] = "settled"],
                   Cm("SettleHTLC", "ok", pkt.idx)),
                Send("UpdateFufillHTLC", pkt.idx)),
             TRUE, in.signErr)

handleDownStreamFail(s, pkt, in) ==
    IF in.cmErr
    THEN Do([s EXCEPT !.inc[pkt.idx] = "stuck"], Cm("FailHTLC", "err", pkt.idx))
    ELSE CountAndCommit(
             Do(Do([s EXCEPT !.channel = LocalUpdate(@), !.inc[pkt.idx] = "failed"],
                   Cm("FailHTLC", "ok", pkt.idx)),
                Send("UpdateFailHTLC", pkt.idx)),
             TRUE, in.signErr)

handleDownStreamPkt(s, pkt, in) ==
    CASE pkt.kind = "Add"    -> handleDownStreamAdd(s, pkt, in)
      [] pkt.kind = "Settle" -> handleDownStreamSettle(s, pkt, in)
      [] pkt.kind = "Fail"   -> handleDownStreamFail(s, pkt, in)

\* ------------------------------------------------------------ the inputs
\* What the collaborators answer to the calls of one handler.
NoError == [cmErr |-> FALSE, encErr |-> FALSE, signErr |-> FALSE]

DownInputs ==
    { NoError,
      [NoError EXCEPT !.cmErr = TRUE],
      [NoError EXCEPT !.cmErr = TRUE, !.encErr = TRUE],
      [NoError EXCEPT !.signErr = TRUE] }

\* The Adds of the switch: the odd ones are forwarded payments (they carry an
\* obfuscator), the even ones were initiated by this node.
AddPacket(id) ==
    [kind |-> "Add", id |-> id, obf |-> id % 2 = 1, idx |-> 0, amt |-> HtlcAmt]
BackPacket(kind, h) == [kind |-> kind, id |-> 0, obf |-> TRUE, idx |-> h, amt |-> 0]

\* The loop takes a producer's event; Stop has not yet stopped the mailbox.
Running == pc = "loop" /\ ~quit

\* The peer's messages reach the loop until fail() has disconnected the peer.
Connected == Running /\ ~failed

\* -------------------------------------------------------------- Bandwidth
\* channelBandwidth - overflowBandwidth, in lnwire.MilliSatoshi (uint64).
Bandwidth ==
    Sub64(AvailableBalance(channel), TotalHtlcAmount(overflowQueue))

\* ------------------------------------------------- calls of the fee functions
\* Everything but calc.
linkVars == <<started, shutdown, quit, pc, batchCounter, bestHeight, policy, cfg,
              logCommitTick, overflowQueue, freeSlots, failed, channel, inc,
              circuits, nextPkt, sentAdds, queued, lastOps, calls, cmd, syncErr,
              htlcs>>

\* shouldAdjustCommitFee called with the fee rates of the bounds.
CallShouldAdjustCommitFee ==
    /\ \E netFee \in 0 .. MaxFee, chanFee \in 0 .. MaxFee :
           calc' = [fn |-> "shouldAdjustCommitFee", args |-> <<netFee, chanFee>>,
                    out |-> shouldAdjustCommitFee(netFee, chanFee)]
    /\ UNCHANGED linkVars

\* ExpectedFee called with small policies and amounts, and with ones whose
\* product or sum passes the width of a MilliSatoshi.
CallExpectedFee ==
    /\ \E f \in [MinHTLC : {0}, BaseFee : {0, 1, Mod64 - 1},
                  FeeRate : {0, 1, 500000, FeeScale}, TimeLockDelta : {0}],
          htlcAmt \in {0, 1, 7, 1000, 1074, 2147} :
           calc' = [fn |-> "ExpectedFee", args |-> <<f, htlcAmt>>,
                    out |-> ExpectedFee(f, htlcAmt)]
    /\ UNCHANGED linkVars

\* ------------------------------------------------------------------ Start
\* A faulty CompareAndSwap: the swap is made whatever the flag holds.
CompareAndSwapBlind(flag, old) == TRUE

\* atomic.CompareAndSwapInt32(&flag, old, 1): whether the swap is made.
CompareAndSwap(flag, old) == flag = old

\* Start by the caller that wins the flag: the manager is launched; it runs
\* syncChanStates first when the link was configured with SyncStates.
Start ==
    /\ calls.start < MaxCalls
    /\ CompareAndSwap(started, 0)
    /\ started' = 1
    /\ pc' = IF cfg.SyncStates THEN "resync" ELSE "loop"
    /\ lastOps' = <<Ev("Start", 0)>>
    /\ htlcs' = <<>>
    /\ calls' = [calls EXCEPT !.start = @ + 1, !.launched = @ + 1]
    /\ UNCHANGED <<shutdown, quit, batchCounter, bestHeight, policy, cfg,
                   logCommitTick, overflowQueue, freeSlots, failed, channel,
                   inc, circuits, nextPkt, sentAdds, queued, cmd, syncErr, calc>>

\* Start by a caller that finds the flag set: "already started".
StartAgain ==
    /\ calls.start < MaxCalls
    /\ ~CompareAndSwap(started, 0)
    /\ calls' = [calls EXCEPT !.start = @ + 1, !.startErr = @ + 1]
    /\ UNCHANGED <<started, shutdown, quit, pc, batchCounter, bestHeight,
                   policy, cfg, logCommitTick, overflowQueue, freeSlots,
                   failed, channel, inc, circuits, nextPkt, sentAdds, queued,
                   lastOps, htlcs, cmd, syncErr, calc>>

\* --------------------------------------------- htlcManager: case downstream
\* A faulty DivertToQueue: an Add is diverted only behind two waiting packets.
DivertBehindTwo(pkt, queue) == pkt.kind = "Add" /\ Len(queue) > 1

\* Whether a packet of the switch goes to the overflow queue unhandled.
DivertToQueue(pkt, queue) == pkt.kind = "Add" /\ Len(queue) # 0

Downstream(pkt, in) ==
    LET s == Cur(Ev("downstream" \o pkt.kind, Len(overflowQueue))) IN
    IF DivertToQueue(pkt, overflowQueue)
    THEN Done(AddPkt(s, pkt), "loop")
    ELSE Done(handleDownStreamPkt(s, pkt, in), "loop")

DownstreamAddUpTo(limit) ==
    /\ Running
    /\ nextPkt <= limit
    /\ \E in \in DownInputs : Downstream(AddPacket(nextPkt), in)
    /\ nextPkt' = nextPkt + 1
    /\ UNCHANGED <<started, shutdown, quit, policy, cfg, calls, cmd, syncErr, calc>>

DownstreamAdd == DownstreamAddUpTo(MaxPkts)

\* The switch passes back the Settle or Fail of an HTLC the link forwarded.
DownstreamBack ==
    /\ Running
    /\ \E h \in DOMAIN inc, kind \in {"Settle", "Fail"}, in \in DownInputs :
           /\ inc[h] = "fwd"
           /\ Downstream(BackPacket(kind, h), in)
    /\ UNCHANGED <<started, shutdown, quit, policy, cfg, nextPkt, calls, cmd,
                   syncErr, calc>>

\* ------------------------------- htlcManager: case overflowQueue.outgoingPkts
\* The queue hands its head over for one free-slot signal.
Reprocess ==
    /\ Running
    /\ freeSlots > 0
    /\ Len(overflowQueue) > 0
    /\ \E in \in DownInputs :
           LET s == [Cur(Ev("reprocess", Len(overflowQueue) - 1))
                         EXCEPT !.overflowQueue = Tail(@),
                                !.freeSlots = @ - 1]
               packet == Head(overflowQueue)
           IN  Done(handleDownStreamPkt(Do(s, Dequeue(packet.id)), packet, in),
                    "loop")
    /\ UNCHANGED <<started, shutdown, quit, policy, cfg, nextPkt, calls, cmd,
                   syncErr, calc>>

\* ------------------------------------------- sendHTLCError and its sibling
\* pd.encryptErr: EncryptFirstHop fails; pd.failErr: the channel machine
\* refuses the local fail.  Either way the error is logged and nothing sent.
sendHTLCError(s, pd, failure) ==
    IF pd.encryptErr THEN [s EXCEPT !.inc[pd.idx] = "stuck"]
    ELSE IF pd.failErr
    THEN Do([s EXCEPT !.inc[pd.idx] = "stuck"], Cm("FailHTLC", "err", pd.idx))
    ELSE Do(Do([s EXCEPT !.channel = LocalUpdate(@), !.inc[pd.idx] = "failed"],
               Cm("FailHTLC", "ok", pd.idx)),
            SendFail(failure, pd.idx))

sendMalformedHTLCError(s, pd, code) ==
    IF pd.failErr
    THEN Do([s EXCEPT !.inc[pd.idx] = "stuck"], Cm("MalformedFailHTLC", "err", pd.idx))
    ELSE Do(Do([s EXCEPT !.channel = LocalUpdate(@), !.inc[pd.idx] = "failed"],
               Cm("MalformedFailHTLC", "ok", pd.idx)),
            Op("send", "UpdateFailMalformedHTLC", code, pd.idx))

\* A failure that carries the last ChannelUpdate, when there is one.
WithUpdate(pd, failure) == IF pd.updErr THEN "TemporaryChannelFailure" ELSE failure

Rejected(s, pd, failure) == [sendHTLCError(s, pd, failure) EXCEPT !.needUpdate = TRUE]

\* ------------------------------------- processLockedInHtlcs: one descriptor
\* A faulty ProcessRemoval: the overflow queue is not told of the free slot.
ProcessRemovalSilent(s, pd) ==
    [s EXCEPT !.batch = Append(@, Forward(pd.type, pd.idx))]

\* case lnwallet.Settle, case lnwallet.Fail
ProcessRemoval(s, pd) ==
    SignalFreeSlot([s EXCEPT !.batch = Append(@, Forward(pd.type, pd.idx))])

\* A faulty ProcessExitHop: an invoice of value zero is held to its amount.
ProcessExitHopAnyInvoice(s, pd, conf, pol) ==
    LET inv == pd.invoice
        expectedHeight == Add32(s.bestHeight, pol.TimeLockDelta)
    IN
    IF conf.DebugHTLC /\ conf.HodlHTLC THEN [s EXCEPT !.inc[pd.idx] = "hold"]
    ELSE IF Sub32(pd.Timeout, expiryGraceDelta) <= s.bestHeight
    THEN Rejected(s, pd, "FinalIncorrectCltvExpiry")
    ELSE IF ~inv.found
    THEN Rejected(Do(s, Registry("LookupInvoice", "err")), pd, "UnknownPaymentHash")
    ELSE LET s1 == Do(s, Registry("LookupInvoice", "ok")) IN
    IF inv.Settled THEN Rejected(s1, pd, "UnknownPaymentHash")
    ELSE IF ~conf.DebugHTLC /\ inv.Value > 0 /\ pd.Amount < inv.Value
    THEN Rejected(s1, pd, "IncorrectPaymentAmount")
    ELSE IF ~conf.DebugHTLC /\ pd.AmountToForward # inv.Value
    THEN Rejected(s1, pd, "IncorrectPaymentAmount")
    ELSE IF ~conf.DebugHTLC /\ pd.OutgoingCTLV < expectedHeight
    THEN Rejected(s1, pd, "FinalIncorrectCltvExpiry")
    ELSE IF ~conf.DebugHTLC /\ pd.Timeout # pd.OutgoingCTLV
    THEN Rejected(s1, pd, "FinalIncorrectCltvExpiry")
    ELSE IF pd.settleErr
    THEN [fail(Do([s1 EXCEPT !.inc[pd.idx] = "stuck"],
                  Cm("SettleHTLC", "err", pd.idx)))
             EXCEPT !.aborted = TRUE]
    ELSE LET s2 == Do([s1 EXCEPT !.channel = LocalUpdate(@),
                                 !.inc[pd.idx] = "settled"],
                      Cm("SettleHTLC", "ok", pd.idx)) IN
    IF pd.invoiceErr
    THEN [fail(Do(s2, Registry("SettleInvoice", "err"))) EXCEPT !.aborted = TRUE]
    ELSE [Do(Do(s2, Registry("SettleInvoice", "ok")),
             Send("UpdateFufillHTLC", pd.idx))
             EXCEPT !.needUpdate = TRUE]

\* A faulty ProcessExitHop: HodlHTLC is not looked at.
ProcessExitHopNoHodl(s, pd, conf, pol) ==
    LET inv == pd.invoice
        expectedHeight == Add32(s.bestHeight, pol.TimeLockDelta)
    IN
    IF FALSE THEN [s EXCEPT !.inc[pd.idx] = "hold"]
    ELSE IF Sub32(pd.Timeout, expiryGraceDelta) <= s.bestHeight
    THEN Rejected(s, pd, "FinalIncorrectCltvExpiry")
    ELSE IF ~inv.found
    THEN Rejected(Do(s, Registry("LookupInvoice", "err")), pd, "UnknownPaymentHash")
    ELSE LET s1 == Do(s, Registry("LookupInvoice", "ok")) IN
    IF inv.Settled THEN Rejected(s1, pd, "UnknownPaymentHash")
    ELSE IF ~conf.DebugHTLC /\ inv.Value > 0 /\ pd.Amount < inv.Value
    THEN Rejected(s1, pd, "IncorrectPaymentAmount")
    ELSE IF ~conf.DebugHTLC /\ inv.Value > 0 /\ pd.AmountToForward # inv.Value
    THEN Rejected(s1, pd, "IncorrectPaymentAmount")
    ELSE IF ~conf.DebugHTLC /\ pd.OutgoingCTLV < expectedHeight
    THEN Rejected(s1, pd, "FinalIncorrectCltvExpiry")
    ELSE IF ~conf.DebugHTLC /\ pd.Timeout # pd.OutgoingCTLV
    THEN Rejected(s1, pd, "FinalIncorrectCltvExpiry")
    ELSE IF pd.settleErr
    THEN [fail(Do([s1 EXCEPT !.inc[pd.idx] = "stuck"],
                  Cm("SettleHTLC", "err", pd.idx)))
             EXCEPT !.aborted = TRUE]
    ELSE LET s2 == Do([s1 EXCEPT !.channel = LocalUpdate(@),
                                 !.inc[pd.idx] = "settled"],
                      Cm("SettleHTLC", "ok", pd.idx)) IN
    IF pd.invoiceErr
    THEN [fail(Do(s2, Registry("SettleInvoice", "err"))) EXCEPT !.aborted = TRUE]
    ELSE [Do(Do(s2, Registry("SettleInvoice", "ok")),
             Send("UpdateFufillHTLC", pd.idx))
             EXCEPT !.needUpdate = TRUE]

\* case exitHop
ProcessExitHop(s, pd, conf, pol) ==
    LET inv == pd.invoice
        expectedHeight == Add32(s.bestHeight, pol.TimeLockDelta)
    IN
    IF conf.DebugHTLC /\ conf.HodlHTLC THEN [s EXCEPT !.inc[pd.idx] = "hold"]
    ELSE IF Sub32(pd.Timeout, expiryGraceDelta) <= s.bestHeight
    THEN Rejected(s, pd, "FinalIncorrectCltvExpiry")
    ELSE IF ~inv.found
    THEN Rejected(Do(s, Registry("LookupInvoice", "err")), pd, "UnknownPaymentHash")
    ELSE LET s1 == Do(s, Registry("LookupInvoice", "ok")) IN
    IF inv.Settled THEN Rejected(s1, pd, "UnknownPaymentHash")
    ELSE IF ~conf.DebugHTLC /\ inv.Value > 0 /\ pd.Amount < inv.Value
    THEN Rejected(s1, pd, "IncorrectPaymentAmount")
    ELSE IF ~conf.DebugHTLC /\ inv.Value > 0 /\ pd.AmountToForward # inv.Value
    THEN Rejected(s1, pd, "IncorrectPaymentAmount")
    ELSE IF ~conf.DebugHTLC /\ pd.OutgoingCTLV < expectedHeight
    THEN Rejected(s1, pd, "FinalIncorrectCltvExpiry")
    ELSE IF ~conf.DebugHTLC /\ pd.Timeout # pd.OutgoingCTLV
    THEN Rejected(s1, pd, "FinalIncorrectCltvExpiry")
    ELSE IF pd.settleErr
    THEN [fail(Do([s1 EXCEPT !.inc[pd.idx] = "stuck"],
                  Cm("SettleHTLC", "err", pd.idx)))
             EXCEPT !.aborted = TRUE]
    ELSE LET s2 == Do([s1 EXCEPT !.channel = LocalUpdate(@),
                                 !.inc[pd.idx] = "settled"],
                      Cm("SettleHTLC", "ok", pd.idx)) IN
    IF pd.invoiceErr
    THEN [fail(Do(s2, Registry("SettleInvoice", "err"))) EXCEPT !.aborted = TRUE]
    ELSE [Do(Do(s2, Registry("SettleInvoice", "ok")),
             Send("UpdateFufillHTLC", pd.idx))
             EXCEPT !.needUpdate = TRUE]

\* default: the link is an intermediate hop
ProcessForward(s, pd, pol) ==
    LET timeDelta == pol.TimeLockDelta
        expectedFee == ExpectedFee(pol, pd.AmountToForward)
    IN
    IF Sub32(pd.Timeout, timeDelta) <= s.bestHeight
    THEN Rejected(s, pd, WithUpdate(pd, "ExpiryTooSoon"))
    ELSE IF pd.Amount < pol.MinHTLC
    THEN Rejected(s, pd, WithUpdate(pd, "AmountBelowMinimum"))
    ELSE IF Sub64(pd.Amount, expectedFee) < pd.AmountToForward
    THEN Rejected(s, pd, WithUpdate(pd, "FeeInsufficient"))
    ELSE IF Sub32(pd.Timeout, timeDelta) < pd.OutgoingCTLV
    THEN IF pd.updErr
         THEN [fail(s) EXCEPT !.aborted = TRUE]
         ELSE Rejected(s, pd, "IncorrectCltvExpiry")
    ELSE IF pd.encodeErr
    THEN Rejected(s, pd, "TemporaryChannelFailure")
    ELSE [s EXCEPT !.batch = Append(@, Forward("Add", pd.idx)),
                   !.inc[pd.idx] = "fwd"]

\* case lnwallet.Add
ProcessAdd(s, pd, conf, pol) ==
    IF pd.obfCode # "CodeNone"
    THEN [sendMalformedHTLCError(s, pd, pd.obfCode) EXCEPT !.needUpdate = TRUE]
    ELSE IF pd.hopCode # "CodeNone"
    THEN [sendMalformedHTLCError(s, pd, pd.hopCode) EXCEPT !.needUpdate = TRUE]
    ELSE IF pd.NextHop = "exit"
    THEN ProcessExitHop(s, pd, conf, pol)
    ELSE ProcessForward(s, pd, pol)

ProcessDescriptor(s, pd, conf, pol) ==
    IF pd.type \in {"Settle", "Fail"} THEN ProcessRemoval(s, pd)
    ELSE ProcessAdd(s, pd, conf, pol)

\* for _, pd := range paymentDescriptors; a `return nil` ends the range.
RECURSIVE ProcessAll(_, _, _, _)
ProcessAll(s, pds, conf, pol) ==
    IF pds = <<>> \/ s.aborted THEN s
    ELSE ProcessAll(ProcessDescriptor(s, Head(pds), conf, pol), Tail(pds), conf, pol)

\* The commitment update that closes processLockedInHtlcs.
CommitIfNeeded(s, signErr) ==
    IF s.aborted \/ ~s.needUpdate THEN s
    ELSE LET s1 == updateCommitTx(s, signErr)
         IN  IF CommitFailed(s1) THEN [fail(s1) EXCEPT !.aborted = TRUE] ELSE s1

\* processLockedInHtlcs returns packetsToForward, or nil when it gave up.
processLockedInHtlcs(s, pds, conf, pol, signErr) ==
    LET s1 == CommitIfNeeded(ProcessAll(s, pds, conf, pol), signErr)
    IN  IF s1.aborted THEN [s1 EXCEPT !.batch = <<>>] ELSE s1

\* -------------------------------------------------------- handleUpstreamMsg
\* A faulty upstreamAdd: the HTLC is settled as soon as it is received.
upstreamAddSettles(s, h, cmErr) ==
    IF cmErr THEN fail(Do(s, Cm("ReceiveHTLC", "err", 0)))
    ELSE Do(Do(Do([s EXCEPT !.inc[h] = "settled", !.channel = LocalUpdate(@)],
                  Cm("ReceiveHTLC", "ok", h)),
               Cm("SettleHTLC", "ok", h)),
            Send("UpdateFufillHTLC", h))

\* case *lnwire.UpdateAddHTLC
upstreamAdd(s, h, cmErr) ==
    IF cmErr THEN fail(Do(s, Cm("ReceiveHTLC", "err", 0)))
    ELSE Do([s EXCEPT !.inc[h] = "recv"],
            Cm("ReceiveHTLC", "ok", h))

\* The outgoing HTLC a removal of the peer names: the oldest still open.
NextOpen(c) == c.lockedUpTo + c.resolving

ReceiveRemoval(c, err) == IF err \/ NextOpen(c) >= c.nextIndex THEN "err" ELSE "ok"

\* case *lnwire.UpdateFufillHTLC
upstreamSettle(s, cmErr) ==
    LET res == ReceiveRemoval(s.channel, cmErr) IN
    IF res = "err" THEN fail(Do(s, Cm("ReceiveHTLCSettle", "err", 0)))
    ELSE Do(Do([s EXCEPT !.channel.resolving = @ + 1],
               Cm("ReceiveHTLCSettle", "ok", NextOpen(s.channel))),
            Cache)

\* case *lnwire.UpdateFailHTLC, and case *lnwire.UpdateFailMalformedHTLC once
\* the failure code is turned into a reason
upstreamFail(s, cmErr) ==
    LET res == ReceiveRemoval(s.channel, cmErr) IN
    IF res = "err" THEN fail(Do(s, Cm("ReceiveFailHTLC", "err", 0)))
    ELSE Do([s EXCEPT !.channel.resolving = @ + 1],
            Cm("ReceiveFailHTLC", "ok", NextOpen(s.channel)))

upstreamMalformedFail(s, encErr, cmErr) ==
    IF encErr THEN s ELSE upstreamFail(s, cmErr)

\* case *lnwire.UpdateFee
upstreamFee(s, cmErr) ==
    IF cmErr THEN fail(Do(s, Cm("ReceiveUpdateFee", "err", 0)))
    ELSE Do(s, Cm("ReceiveUpdateFee", "ok", 0))

\* case *lnwire.CommitSig, up to the send on htlcUpdates.  res is what
\* ReceiveNewCommitment answers.
\* The commitment the peer signed: in.owe, it covers updates (or a height) the
\* link has not signed for; in.paid, it covers the updates the link signed.
NewCommitment(c, in) == [c EXCEPT !.owes = @ \/ in.owe, !.awaits = @ /\ ~in.paid]

commitSigRevoke(s, revokeErr) ==
    IF revokeErr THEN Do(s, Cm("RevokeCurrentCommitment", "err", 0))
    ELSE Do(Do(s, Cm("RevokeCurrentCommitment", "ok", 0)), Send("RevokeAndAck", 0))

upstreamCommitSig(s, in) ==
    IF in.res = "InvalidCommitSigError"
    THEN fail(Do(Do(s, Cm("ReceiveNewCommitment", in.res, 0)), Send("Error", 0)))
    ELSE IF in.res = "err"
    THEN fail(Do(s, Cm("ReceiveNewCommitment", in.res, 0)))
    ELSE commitSigRevoke(Do([s EXCEPT !.channel = NewCommitment(@, in)],
                            Cm("ReceiveNewCommitment", "ok", 0)),
                         in.revokeErr)

\* Whether the CommitSig handler got as far as the send on htlcUpdates.
Revoked(s) == s.ops[Len(s.ops)] = Send("RevokeAndAck", 0)

\* case *lnwire.CommitSig, after htlcUpdates took the active HTLCs
commitSigReply(s, signErr) ==
    LET s1 == Do([Do(s, Publish) EXCEPT !.logCommitTick = "armed"], Timer("reset")) IN
    IF FullySynced(s1.channel) THEN s1
    ELSE LET s2 == updateCommitTx(s1, signErr)
         IN  IF CommitFailed(s2) THEN fail(s2) ELSE s2

\* ReceiveRevocation: an error unless a commitment of ours awaits revocation.
ReceiveRevocation(c, err) == IF err \/ c.window THEN "err" ELSE "ok"

\* The descriptors a revocation locks in: the oldest removals the peer sent
\* (kinds says which are Settles and which Fails) and the incoming Adds of
\* adds (a sequence of Add descriptors).
Removals(c, kinds) ==
    [i \in DOMAIN kinds |-> [type |-> kinds[i], idx |-> c.lockedUpTo + i - 1]]

Revocation(c, kinds, adds) ==
    [c EXCEPT !.window = TRUE,
              !.lockedUpTo = @ + Len(kinds),
              !.resolving = @ - Len(kinds),
              !.lockedIn = @ \cup {adds[i].idx : i \in DOMAIN adds}]

\* The goroutine that forwards the batch to the switch.
ForwardBatch(s) ==
    [s EXCEPT !.ops = @ \o s.batch]

\* case *lnwire.RevokeAndAck
upstreamRevoke(s, cmErr, kinds, adds, conf, pol, signErr) ==
    LET res == ReceiveRevocation(s.channel, cmErr) IN
    IF res = "err" THEN fail(Do(s, Cm("ReceiveRevocation", "err", 0)))
    ELSE LET locked == Removals(s.channel, kinds) \o adds IN
         ForwardBatch(
             processLockedInHtlcs(
                 Do([s EXCEPT !.channel = Revocation(@, kinds, adds),
                              !.htlcs = locked],
                    Cm("ReceiveRevocation", "ok", 0)),
                 locked, conf, pol, signErr))

\* ------------------------------------------------- what the peer can send
\* The locked-in incoming Adds the link is tried on: the amounts, time-locks,
\* onion contents and collaborator answers of one payment descriptor.
BaseAdd ==
    [type |-> "Add", idx |-> 0, Amount |-> 7, Timeout |-> 20,
     obfCode |-> "CodeNone", hopCode |-> "CodeNone", NextHop |-> "hop",
     AmountToForward |-> 4, OutgoingCTLV |-> 17,
     encodeErr |-> FALSE, encryptErr |-> FALSE, failErr |-> FALSE,
     updErr |-> FALSE, settleErr |-> FALSE, invoiceErr |-> FALSE,
     invoice |-> [found |-> TRUE, Settled |-> FALSE, Value |-> 8]]

BaseExit == [BaseAdd EXCEPT !.NextHop = "exit", !.Amount = 8,
                            !.AmountToForward = 8, !.OutgoingCTLV = 20]

ForwardCases ==
    { BaseAdd,
      [BaseAdd EXCEPT !.Timeout = 13],
      [BaseAdd EXCEPT !.Timeout = 13, !.updErr = TRUE],
      [BaseAdd EXCEPT !.Timeout = 13, !.encryptErr = TRUE],
      [BaseAdd EXCEPT !.Timeout = 13, !.failErr = TRUE],
      [BaseAdd EXCEPT !.Timeout = 1],
      [BaseAdd EXCEPT !.Amount = 4],
      [BaseAdd EXCEPT !.Amount = 6],
      [BaseAdd EXCEPT !.Amount = 5, !.AmountToForward = 10],
      [BaseAdd EXCEPT !.OutgoingCTLV = 18],
      [BaseAdd EXCEPT !.OutgoingCTLV = 18, !.updErr = TRUE],
      [BaseAdd EXCEPT !.encodeErr = TRUE],
      [BaseAdd EXCEPT !.obfCode = "CodeInvalidOnionVersion"],
      [BaseAdd EXCEPT !.hopCode = "CodeInvalidOnionHmac"],
      [BaseAdd EXCEPT !.hopCode = "CodeInvalidOnionKey", !.failErr = TRUE] }

ExitCases ==
    { BaseExit,
      [BaseExit EXCEPT !.Timeout = 12, !.OutgoingCTLV = 12],
      [BaseExit EXCEPT !.invoice.found = FALSE],
      [BaseExit EXCEPT !.invoice.Settled = TRUE],
      [BaseExit EXCEPT !.Amount = 7],
      [BaseExit EXCEPT !.AmountToForward = 7],
      [BaseExit EXCEPT !.OutgoingCTLV = 12],
      [BaseExit EXCEPT !.OutgoingCTLV = 19],
      [BaseExit EXCEPT !.invoice.Value = 0, !.Amount = 3, !.AmountToForward = 2],
      [BaseExit EXCEPT !.settleErr = TRUE],
      [BaseExit EXCEPT !.invoiceErr = TRUE] }

AddCases == ForwardCases \cup ExitCases

Least(H) == CHOOSE h \in H : \A g \in H : h <= g

\* The Add descriptors of the incoming HTLCs H, in index order.
RECURSIVE AddSeqs(_, _)
AddSeqs(H, cases) ==
    IF H = {} THEN {<<>>}
    ELSE { <<[c EXCEPT !.idx = Least(H)]>> \o rest :
               c \in cases, rest \in AddSeqs(H \ {Least(H)}, cases) }

Received == {h \in DOMAIN inc : inc[h] = "recv"}

Handled(s, nextPc) ==
    /\ Done(s, nextPc)
    /\ UNCHANGED <<started, shutdown, quit, policy, cfg, nextPkt, calls, cmd,
                   syncErr, calc>>

\* ----------------------------------------------- htlcManager: case upstream
UpstreamAdd ==
    /\ Connected
    /\ \E h \in DOMAIN inc, cmErr \in BOOLEAN :
           /\ inc[h] = "none"
           /\ \A g \in DOMAIN inc : g < h => inc[g] # "none"
           /\ Handled(upstreamAdd(Cur(Ev("upstreamAdd", 0)), h, cmErr), "loop")

\* The peer has sent fewer than limit removals.
RemovalsBelow(limit) == NextOpen(channel) < limit

UpstreamSettleUpTo(limit) ==
    /\ Connected
    /\ RemovalsBelow(limit)
    /\ \E cmErr \in BOOLEAN :
           Handled(upstreamSettle(Cur(Ev("upstreamSettle", 0)), cmErr), "loop")

UpstreamSettle == UpstreamSettleUpTo(MaxRemovals)

UpstreamFail ==
    /\ Connected
    /\ RemovalsBelow(MaxRemovals)
    /\ \E cmErr \in BOOLEAN :
           Handled(upstreamFail(Cur(Ev("upstreamFail", 0)), cmErr), "loop")

UpstreamMalformedFail ==
    /\ Connected
    /\ RemovalsBelow(MaxRemovals)
    /\ \E encErr \in BOOLEAN, cmErr \in BOOLEAN :
           Handled(upstreamMalformedFail(Cur(Ev("upstreamMalformedFail", 0)),
                                         encErr, cmErr), "loop")

UpstreamFee ==
    /\ Connected
    /\ \E cmErr \in BOOLEAN :
           Handled(upstreamFee(Cur(Ev("upstreamFee", 0)), cmErr), "loop")

\* What ReceiveNewCommitment, FullySynced and RevokeCurrentCommitment answer.
CommitSigInputs ==
    [res : {"ok"}, owe : BOOLEAN, paid : BOOLEAN, revokeErr : BOOLEAN]
        \cup [res : {"InvalidCommitSigError", "err"}, owe : {FALSE},
               paid : {FALSE}, revokeErr : {FALSE}]

UpstreamCommitSig ==
    /\ Connected
    /\ \E in \in CommitSigInputs :
           LET s == upstreamCommitSig(Cur(Ev("upstreamCommitSig", 0)), in)
           IN  Handled(s, IF Revoked(s) THEN "publish" ELSE "loop")

\* select { case l.htlcUpdates <- currentHtlcs: ... }
PublishHtlcs ==
    /\ pc = "publish"
    /\ \E signErr \in BOOLEAN :
           Handled(commitSigReply([Cur(Ev("", 0)) EXCEPT !.ops = lastOps], signErr),
                   "loop")

\* select { ... case <-l.quit: return }
PublishQuit ==
    /\ pc = "publish"
    /\ quit
    /\ pc' = "loop"
    /\ UNCHANGED <<started, shutdown, quit, batchCounter, bestHeight, policy,
                   cfg, logCommitTick, overflowQueue, freeSlots, failed,
                   channel, inc, circuits, nextPkt, sentAdds, queued, lastOps, htlcs,
                   calls, cmd, syncErr, calc>>

\* A RevokeAndAck that locks in removals the peer sent and incoming Adds whose
\* descriptors are among cases.
UpstreamRevokeOf(cases) ==
    /\ Connected
    /\ \E cmErr \in BOOLEAN, signErr \in BOOLEAN,
          k \in 0 .. channel.resolving, H \in SUBSET Received :
           \E kinds \in [1 .. k -> {"Settle", "Fail"}], adds \in AddSeqs(H, cases) :
               \* SignalFreeSlot does not block: the signals fit the queue's buffer
               /\ Len(overflowQueue) > 0 => freeSlots + k <= QueueCapacity
               /\ cmErr => k = 0 /\ H = {}
               /\ signErr => ~cmErr
               /\ Handled(upstreamRevoke(Cur(Ev("upstreamRevoke", 0)), cmErr, kinds,
                                         adds, cfg, policy, signErr), "loop")

UpstreamRevoke == UpstreamRevokeOf(AddCases)

\* ------------------------------------------------ htlcManager: the timers
\* case <-l.logCommitTick
LogCommitTick ==
    /\ pc = "loop"
    /\ logCommitTick = "armed"
    /\ \E signErr \in BOOLEAN :
           LET s == [Cur(Ev("logCommitTick", 0)) EXCEPT !.logCommitTick = "expired"]
           IN  IF FullySynced(s.channel) THEN Handled(s, "loop")
               ELSE LET s1 == updateCommitTx(s, signErr)
                    IN  IF CommitFailed(s1)
                        THEN Handled([fail(s1) EXCEPT !.exit = TRUE], "loop")
                        ELSE Handled(s1, "loop")

\* case <-batchTimer.C
BatchTick ==
    /\ pc = "loop"
    /\ \E signErr \in BOOLEAN :
           LET s == Cur(Ev("batchTick", 0))
           IN  IF s.batchCounter = 0 THEN Handled(s, "loop")
               ELSE LET s1 == updateCommitTx(s, signErr)
                    IN  IF CommitFailed(s1)
                        THEN Handled([fail(s1) EXCEPT !.exit = TRUE], "loop")
                        ELSE Handled(s1, "loop")

\* ------------------------------------------- htlcManager: case block epoch
\* updateChannelFee: the errors it returns are logged by the caller.
\* A faulty updateChannelFee: the UpdateFee is sent and no commitment signed.
updateChannelFeeUnsigned(s, in) ==
    LET s0 == Do(s, Query("EligibleToForward", in.eligible)) IN
    IF ~in.eligible THEN s0
    ELSE IF in.feeErr THEN Do(s0, Cm("UpdateFee", "err", 0))
    ELSE LET s1 == Do(s0, Cm("UpdateFee", "ok", 0)) IN
         IF in.sendErr THEN Do(s1, Op("send", "UpdateFee", "err", 0))
         ELSE Do(s1, Send("UpdateFee", 0))

updateChannelFee(s, in) ==
    LET s0 == Do(s, Query("EligibleToForward", in.eligible)) IN
    IF ~in.eligible THEN s0
    ELSE IF in.feeErr THEN Do(s0, Cm("UpdateFee", "err", 0))
    ELSE LET s1 == Do(s0, Cm("UpdateFee", "ok", 0)) IN
         IF in.sendErr THEN Do(s1, Op("send", "UpdateFee", "err", 0))
         ELSE updateCommitTx(Do(s1, Send("UpdateFee", 0)), in.signErr)

\* A faulty blockEpoch: the fee is sampled whoever opened the channel.
blockEpochAnyone(s, in) ==
    IF ~in.open THEN [s EXCEPT !.exit = TRUE]
    ELSE LET s1 == Do([s EXCEPT !.bestHeight = in.height],
                      Query("IsInitiator", in.initiator))
             feePerKw == in.feePerWeight * 1000
         IN  IF in.sampleErr THEN Do(s1, Sample("err", 0))
             ELSE LET s2 == Do(s1, Sample("ok", feePerKw)) IN
                  IF ~shouldAdjustCommitFee(feePerKw, s2.channel.feeRate) THEN s2
                  ELSE updateChannelFee(s2, in)

blockEpoch(s, in) ==
    IF ~in.open THEN [s EXCEPT !.exit = TRUE]
    ELSE LET s1 == Do([s EXCEPT !.bestHeight = in.height],
                      Query("IsInitiator", in.initiator))
             feePerKw == in.feePerWeight * 1000
         IN  IF ~in.initiator THEN s1
             ELSE IF in.sampleErr THEN Do(s1, Sample("err", 0))
             ELSE LET s2 == Do(s1, Sample("ok", feePerKw)) IN
                  IF ~shouldAdjustCommitFee(feePerKw, s2.channel.feeRate) THEN s2
                  ELSE updateChannelFee(s2, in)

\* What a block epoch brings and what the collaborators answer: whether the
\* notifier's stream is still open, the height, IsInitiator(), the fee
\* estimator's sample (or its error), the eligibility of the link, and the
\* errors of UpdateFee, of the send and of the signature.
Epoch ==
    [open |-> TRUE, height |-> 11, initiator |-> TRUE, sampleErr |-> FALSE,
     feePerWeight |-> 12, eligible |-> TRUE, feeErr |-> FALSE,
     sendErr |-> FALSE, signErr |-> FALSE]

EpochInputs ==
    { Epoch,
      [Epoch EXCEPT !.open = FALSE],
      [Epoch EXCEPT !.height = 10],
      [Epoch EXCEPT !.initiator = FALSE],
      [Epoch EXCEPT !.sampleErr = TRUE],
      [Epoch EXCEPT !.feePerWeight = 10],
      [Epoch EXCEPT !.feePerWeight = 8],
      [Epoch EXCEPT !.eligible = FALSE],
      [Epoch EXCEPT !.feeErr = TRUE],
      [Epoch EXCEPT !.sendErr = TRUE],
      [Epoch EXCEPT !.signErr = TRUE] }

BlockEpoch ==
    /\ pc = "loop"
    /\ \E in \in EpochInputs :
           Handled(blockEpoch(Cur(Ev("blockEpoch", in.height)), in), "loop")

\* case <-l.cfg.ChainEvents.UnilateralClosure
UnilateralClose ==
    /\ pc = "loop"
    /\ Handled([Do(Cur(Ev("unilateralClose", 0)), Op("wipe", "WipeChannel", "", 0))
                   EXCEPT !.exit = TRUE], "loop")

\* A faulty QuitCase: the shutdown signal is seen and the loop goes on.
QuitCaseStays ==
    /\ pc = "loop"
    /\ quit
    /\ Handled(Cur(Ev("quit", 0)), "loop")

\* case <-l.quit
QuitCase ==
    /\ pc = "loop"
    /\ quit
    /\ Handled([Cur(Ev("quit", 0)) EXCEPT !.exit = TRUE], "loop")

\* --------------------------------------------------------------------- Stop
\* Stop: the shutdown flag, l.channel.Stop(), l.mailBox.Stop(),
\* l.overflowQueue.Stop(), close(l.quit).
\* It ends at l.wg.Wait(), where the caller waits for the manager.
Stop ==
    /\ calls.stop < MaxCalls
    /\ CompareAndSwap(shutdown, 0)
    /\ shutdown' = 1
    /\ channel' = [channel EXCEPT !.stopped = TRUE]
    /\ quit' = TRUE
    /\ calls' = [calls EXCEPT !.stop = @ + 1, !.closes = @ + 1, !.waiting = @ + 1]
    /\ UNCHANGED <<started, pc, batchCounter, bestHeight, policy, cfg,
                   logCommitTick, overflowQueue, freeSlots, failed, inc,
                   circuits, nextPkt, sentAdds, queued, lastOps, htlcs, cmd, syncErr, calc>>

\* Stop by a caller that finds the flag set: "already stopped", nothing done.
StopAgain ==
    /\ calls.stop < MaxCalls
    /\ ~CompareAndSwap(shutdown, 0)
    /\ calls' = [calls EXCEPT !.stop = @ + 1, !.stopNoop = @ + 1]
    /\ UNCHANGED <<started, shutdown, quit, pc, batchCounter, bestHeight,
                   policy, cfg, logCommitTick, overflowQueue, freeSlots,
                   failed, channel, inc, circuits, nextPkt, sentAdds, queued,
                   lastOps, htlcs, cmd, syncErr, calc>>

\* What has been released: Stop cancels the chain events and stops the
\* channel machine; htlcManager cancels the block epochs and stops the batch
\* timer in its deferred calls, which run when it returns.
Released ==
    [chainEvents |-> shutdown = 1,
     channel     |-> channel.stopped,
     blockEpochs |-> pc = "exited",
     batchTimer  |-> pc = "exited"]

\* The wait group: htlcManager goroutines launched and not yet returned.
wg == IF pc \in {"idle", "exited"} THEN 0 ELSE 1

\* l.wg.Wait() returns, and with it Stop.
StopReturn ==
    /\ calls.waiting > 0
    /\ wg = 0
    /\ calls' = [calls EXCEPT !.waiting = @ - 1, !.returned = @ + 1]
    /\ UNCHANGED <<started, shutdown, quit, pc, batchCounter, bestHeight,
                   policy, cfg, logCommitTick, overflowQueue, freeSlots,
                   failed, channel, inc, circuits, nextPkt, sentAdds, queued,
                   lastOps, htlcs, cmd, syncErr, calc>>

\* ----------------------------------------------------------- syncChanStates
\* The incoming HTLCs that were active when the link lost its peer.
RestoredHtlcs == 0 .. MaxRestored - 1

\* A message re-sent for the peer's ChanSync.
Resent(msg) == Op("send", msg.kind, "resend", msg.ID)

\* syncChanStates up to its select: the local ChanSync message is made and
\* sent.  aborted says that syncChanStates returned an error.
syncSend(s, in) ==
    IF in.chanSyncErr
    THEN [Do(s, Cm("ChanSyncMsg", "err", 0)) EXCEPT !.aborted = TRUE]
    ELSE IF in.sendErr
    THEN [Do(Do(s, Cm("ChanSyncMsg", "ok", 0)),
             Op("send", "ChannelReestablish", "err", 0)) EXCEPT !.aborted = TRUE]
    ELSE Do(Do(s, Cm("ChanSyncMsg", "ok", 0)), Send("ChannelReestablish", 0))

\* Both sides are at commit height 1: FundingLocked is sent again.
resendFundingLocked(s, in) ==
    IF in.keyErr
    THEN [Do(s, Cm("NextRevocationKey", "err", 0)) EXCEPT !.aborted = TRUE]
    ELSE IF in.lockedErr
    THEN [Do(Do(s, Cm("NextRevocationKey", "ok", 0)),
             Op("send", "FundingLocked", "err", 0)) EXCEPT !.aborted = TRUE]
    ELSE Do(Do(s, Cm("NextRevocationKey", "ok", 0)), Send("FundingLocked", 0))

\* for _, msg := range msgsToReSend { l.cfg.Peer.SendMessage(msg) }
\* errs: the messages for which SendMessage returns an error; the loop does
\* not read the result.
RECURSIVE resend(_, _, _)
resend(s, msgs, errs) ==
    IF msgs = <<>> THEN s
    ELSE LET msg == Head(msgs) IN
         resend(Do(s, IF msg \in errs THEN Op("send", msg.kind, "err", msg.ID)
                      ELSE Resent(msg)),
                Tail(msgs), errs)

\* The indexes of the settles among the messages re-sent.
htlcsSettled(msgs) ==
    {msgs[i].ID : i \in {j \in DOMAIN msgs : msgs[j].kind = "UpdateFufillHTLC"}}

\* A faulty AlreadySettled: the scan does not look at the settles re-sent.
AlreadySettledNever(htlc, settled) == FALSE

\* Whether the settle of an active HTLC was re-sent for the ChanSync.
AlreadySettled(htlc, settled) == htlc.HtlcIndex \in settled

\* A faulty settleKnown: the settle is not counted in batchCounter.
settleKnownUncounted(s, htlc) ==
    IF htlc.settleErr
    THEN [fail(Do(s, Cm("SettleHTLC", "err", htlc.HtlcIndex))) EXCEPT !.aborted = TRUE]
    ELSE LET s1 == Do([s EXCEPT !.channel = LocalUpdate(@)],
                      Cm("SettleHTLC", "ok", htlc.HtlcIndex)) IN
         IF htlc.invoiceErr
         THEN [fail(Do(s1, Registry("SettleInvoice", "err"))) EXCEPT !.aborted = TRUE]
         ELSE Do(Do(s1, Registry("SettleInvoice", "ok")),
                 Send("UpdateFufillHTLC", htlc.HtlcIndex))

\* An active incoming HTLC whose preimage is known is settled.
settleKnown(s, htlc) ==
    IF htlc.settleErr
    THEN [fail(Do(s, Cm("SettleHTLC", "err", htlc.HtlcIndex))) EXCEPT !.aborted = TRUE]
    ELSE LET s1 == Do([s EXCEPT !.channel = LocalUpdate(@)],
                      Cm("SettleHTLC", "ok", htlc.HtlcIndex)) IN
         IF htlc.invoiceErr
         THEN [fail(Do(s1, Registry("SettleInvoice", "err"))) EXCEPT !.aborted = TRUE]
         ELSE Do([Do(s1, Registry("SettleInvoice", "ok"))
                     EXCEPT !.batchCounter = (@ + 1) % Mod32],
                 Send("UpdateFufillHTLC", htlc.HtlcIndex))

\* for _, htlc := range activeHTLCs
RECURSIVE settleActive(_, _, _)
settleActive(s, activeHTLCs, settled) ==
    IF activeHTLCs = <<>> \/ s.aborted THEN s
    ELSE LET htlc == Head(activeHTLCs) IN
         IF ~htlc.Incoming \/ AlreadySettled(htlc, settled) \/ ~htlc.known
         THEN settleActive(s, Tail(activeHTLCs), settled)
         ELSE settleActive(settleKnown(s, htlc), Tail(activeHTLCs), settled)

\* syncChanStates from the first message of the peer to its end.
syncMessage(s, in) ==
    LET s0 == Do(s, Op("recv", in.first, "", 0)) IN
    IF in.first # "ChannelReestablish" THEN [s0 EXCEPT !.aborted = TRUE]
    ELSE LET s1 == IF in.fresh THEN resendFundingLocked(s0, in) ELSE s0 IN
         IF s1.aborted THEN s1
         ELSE IF in.processErr
         THEN [Do(s1, Cm("ProcessChanSyncMsg", "err", 0)) EXCEPT !.aborted = TRUE]
         ELSE LET s2 == resend(Do(s1, Cm("ProcessChanSyncMsg", "ok", 0)),
                               in.msgsToReSend, in.resendErr)
              IN  settleActive([s2 EXCEPT !.htlcs = in.activeHTLCs],
                               in.activeHTLCs, htlcsSettled(in.msgsToReSend))

\* A faulty syncReturn: the manager calls fail() and goes on into its loop.
syncReturnGoesOn(s) == IF s.aborted THEN fail(s) ELSE s

\* htlcManager: if err := l.syncChanStates(); err != nil { l.fail(..); return }
syncReturn(s) == IF s.aborted THEN [fail(s) EXCEPT !.exit = TRUE] ELSE s

\* ------------------------------------------- what the resync is tried on
RECURSIVE Settles(_)
Settles(H) ==
    IF H = {} THEN <<>>
    ELSE <<[kind |-> "UpdateFufillHTLC", ID |-> Least(H)]>> \o Settles(H \ {Least(H)})

\* What ProcessChanSyncMsg asks to send again: an Add of the link, when
\* withAdd, and the settles of the incoming HTLCs of H.
MsgsToReSend(withAdd, H) ==
    (IF withAdd THEN <<[kind |-> "UpdateAddHTLC", ID |-> 1]>> ELSE <<>>) \o Settles(H)

\* ActiveHtlcs: an outgoing HTLC, then the incoming ones in index order; known
\* are those whose preimage the cache holds.
ActiveHtlcs(known, settleErr, invoiceErr) ==
    [i \in 1 .. MaxRestored + 1 |->
        IF i = 1
        THEN [HtlcIndex |-> 0, Incoming |-> FALSE, known |-> TRUE,
              settleErr |-> FALSE, invoiceErr |-> FALSE]
        ELSE [HtlcIndex |-> i - 2, Incoming |-> TRUE, known |-> (i - 2) \in known,
              settleErr |-> (i - 2) \in settleErr,
              invoiceErr |-> (i - 2) \in invoiceErr]]

SyncOk ==
    [first |-> "ChannelReestablish", fresh |-> FALSE, keyErr |-> FALSE,
     lockedErr |-> FALSE, processErr |-> FALSE, resendErr |-> {},
     msgsToReSend |-> <<>>, activeHTLCs |-> ActiveHtlcs({}, {}, {})]

SyncInputs ==
    { [SyncOk EXCEPT !.msgsToReSend = MsgsToReSend(FALSE, S),
                     !.activeHTLCs = ActiveHtlcs(K, {}, {})] :
          S \in SUBSET RestoredHtlcs, K \in SUBSET RestoredHtlcs }
    \cup
    { [SyncOk EXCEPT !.first = "UpdateAddHTLC"],
      [SyncOk EXCEPT !.fresh = TRUE],
      [SyncOk EXCEPT !.fresh = TRUE, !.keyErr = TRUE],
      [SyncOk EXCEPT !.fresh = TRUE, !.lockedErr = TRUE],
      [SyncOk EXCEPT !.processErr = TRUE],
      [SyncOk EXCEPT !.msgsToReSend = MsgsToReSend(TRUE, {0}),
                     !.activeHTLCs = ActiveHtlcs(RestoredHtlcs, {}, {})],
      [SyncOk EXCEPT !.msgsToReSend = MsgsToReSend(TRUE, {0}),
                     !.resendErr = {[kind |-> "UpdateAddHTLC", ID |-> 1]}],
      [SyncOk EXCEPT !.msgsToReSend = MsgsToReSend(TRUE, {0}),
                     !.resendErr = {[kind |-> "UpdateFufillHTLC", ID |-> 0]},
                     !.activeHTLCs = ActiveHtlcs({0}, {}, {})],
      [SyncOk EXCEPT !.activeHTLCs = ActiveHtlcs(RestoredHtlcs, {1}, {})],
      [SyncOk EXCEPT !.activeHTLCs = ActiveHtlcs(RestoredHtlcs, {}, {0})] }

\* ------------------------------------------- htlcManager: the resync first
Synced(s, nextPc) ==
    /\ Done(syncReturn(s), nextPc)
    /\ syncErr' = IF s.aborted THEN "err" ELSE IF nextPc = "loop" THEN "nil" ELSE syncErr
    /\ UNCHANGED <<started, shutdown, quit, policy, cfg, nextPkt, calls, cmd,
                   calc>>

SyncBegin ==
    /\ pc = "resync"
    /\ \E chanSyncErr \in BOOLEAN, sendErr \in BOOLEAN :
           /\ chanSyncErr => ~sendErr
           /\ Synced(syncSend(Cur(Ev("resync", 0)),
                              [chanSyncErr |-> chanSyncErr, sendErr |-> sendErr]),
                     "sync")

\* select { case msg := <-l.upstream: ... }
SyncMessage ==
    /\ pc = "sync"
    /\ ~quit
    /\ \E in \in SyncInputs : Synced(syncMessage(Cur(Ev("syncMessage", 0)), in), "loop")

\* select { ... case <-l.quit: return fmt.Errorf("shutting down") }
SyncQuit ==
    /\ pc = "sync"
    /\ quit
    /\ Synced([Cur(Ev("syncQuit", 0)) EXCEPT !.aborted = TRUE], "loop")

\* select { ... case <-chanSyncDeadline: ... }
SyncDeadline ==
    /\ pc = "sync"
    /\ Synced([Cur(Ev("syncDeadline", 0)) EXCEPT !.aborted = TRUE], "loop")

\* ---------------------------------------- htlcManager: case l.linkControl
\* case *policyUpdate: the fields of the request that are set are taken over.
MergePolicy(old, new) ==
    [old EXCEPT !.BaseFee = IF new.BaseFee # 0 THEN new.BaseFee ELSE @,
                !.FeeRate = IF new.FeeRate # 0 THEN new.FeeRate ELSE @,
                !.TimeLockDelta = IF new.TimeLockDelta # 0 THEN new.TimeLockDelta ELSE @]

\* The manager takes the request off linkControl, applies it, closes done.
LinkControl ==
    /\ pc = "loop"
    /\ cmd.at = "send"
    /\ policy' = MergePolicy(policy, cmd.policy)
    /\ cmd' = [cmd EXCEPT !.at = "wait", !.done = TRUE]
    /\ lastOps' = <<Ev("linkControl", 0)>>
    /\ htlcs' = <<>>
    /\ UNCHANGED <<started, shutdown, quit, pc, batchCounter, bestHeight, cfg,
                   logCommitTick, overflowQueue, freeSlots, failed, channel,
                   inc, circuits, nextPkt, sentAdds, queued, calls, syncErr, calc>>

\* --------------------------------------------------- UpdateForwardingPolicy
PolicyUpdates ==
    { [ZeroPolicy EXCEPT !.MinHTLC = 7],
      [ZeroPolicy EXCEPT !.BaseFee = 2, !.TimeLockDelta = 5],
      [MinHTLC |-> 6, BaseFee |-> 3, FeeRate |-> 400000, TimeLockDelta |-> 4] }

Caller(next) ==
    /\ cmd' = next
    /\ UNCHANGED <<started, shutdown, quit, pc, batchCounter, bestHeight,
                   policy, cfg, logCommitTick, overflowQueue, freeSlots,
                   failed, channel, inc, circuits, nextPkt, sentAdds, queued,
                   lastOps, htlcs, calls, syncErr, calc>>

\* The call: cmd is made, the caller is at its first select.
UpdateForwardingPolicy ==
    /\ cmd.at \in {"idle", "returned"}
    /\ cmd.n < MaxUpdates
    /\ \E newPolicy \in PolicyUpdates :
           Caller([at |-> "send", policy |-> newPolicy, done |-> FALSE,
                   n |-> cmd.n + 1])

\* select { case l.linkControl <- cmd: case <-l.quit: }, the quit case
PolicySendQuit ==
    /\ cmd.at = "send"
    /\ quit
    /\ Caller([cmd EXCEPT !.at = "wait"])

\* select { case <-cmd.done: case <-l.quit: }
PolicyReturn ==
    /\ cmd.at = "wait"
    /\ cmd.done \/ quit
    /\ Caller([cmd EXCEPT !.at = "returned"])

\* ------------------------------------------------------ the specification
Next ==
    \/ Start
    \/ DownstreamAdd
    \/ DownstreamBack
    \/ Reprocess
    \/ UpstreamAdd
    \/ UpstreamSettle
    \/ UpstreamFail
    \/ UpstreamMalformedFail
    \/ UpstreamFee
    \/ UpstreamCommitSig
    \/ PublishHtlcs
    \/ PublishQuit
    \/ UpstreamRevoke
    \/ LogCommitTick
    \/ BatchTick
    \/ BlockEpoch
    \/ UnilateralClose
    \/ QuitCase
    \/ Stop

Spec == Init /\ [][Next]_vars

\* The link under a switch that submits QueuePkts Adds and a peer that settles
\* QueueRemovals HTLCs: the traffic that fills and drains the overflow queue.
QueueNext ==
    \/ Start
    \/ DownstreamAddUpTo(QueuePkts)
    \/ Reprocess
    \/ UpstreamSettleUpTo(QueueRemovals)
    \/ UpstreamCommitSig
    \/ PublishHtlcs
    \/ UpstreamRevoke

QueueSpec == Init /\ [][QueueNext]_vars

\* The fee functions on their own, called with every argument of the bounds.
FeeNext ==
    \/ CallShouldAdjustCommitFee
    \/ CallExpectedFee

FeeSpec == Init /\ [][FeeNext]_vars

\* The incoming Adds the hop rules are tried on: every amount, time-lock and
\* invoice value of a small grid around the policy's thresholds, on top of
\* the cases above.
HopCases ==
    LET forwards ==
            { [BaseAdd EXCEPT !.Amount = a, !.AmountToForward = f, !.Timeout = t,
                              !.OutgoingCTLV = o, !.updErr = u] :
                  a \in 4 .. 8, f \in {2, 4, 10}, t \in {1, 13, 20},
                  o \in {17, 18}, u \in BOOLEAN }
        exits ==
            { [BaseExit EXCEPT !.Amount = a, !.AmountToForward = f, !.Timeout = t,
                               !.OutgoingCTLV = o, !.invoice.Value = v] :
                  a \in {0, 3, 7, 8, 9}, f \in {0, 3, 7, 8, 9}, t \in {12, 20},
                  o \in {12, 19, 20}, v \in {0, 8} }
        unanswered ==
            { [c EXCEPT !.encryptErr = e, !.failErr = ~e] :
                  c \in { [BaseExit EXCEPT !.Amount = 7],
                          [BaseExit EXCEPT !.AmountToForward = 9],
                          [BaseAdd EXCEPT !.Amount = 4],
                          [BaseAdd EXCEPT !.OutgoingCTLV = 18] },
                  e \in BOOLEAN }
    IN  forwards \cup exits \cup unanswered \cup AddCases

\* The link in each of its modes, with a peer that sends Adds of every kind
\* and settles or fails HTLCs the link forwarded.
HopInit == InitWith([DebugHTLC : BOOLEAN, HodlHTLC : BOOLEAN, SyncStates : {FALSE}], 100)

HopNext ==
    \/ Start
    \/ UpstreamAdd
    \/ UpstreamSettle
    \/ UpstreamFail
    \/ UpstreamCommitSig
    \/ PublishHtlcs
    \/ UpstreamRevokeOf(HopCases)

HopSpec == HopInit /\ [][HopNext]_vars

\* The link of a channel with little left to offer, under the same traffic.
FundsInit == InitWith(Configs, 10)

\* A link in its loop with an incoming HTLC it forwarded and with up to nine
\* updates applied since its last signature, the peer having revoked or not.
BatchInit ==
    /\ started = 1
    /\ shutdown = 0
    /\ quit = FALSE
    /\ pc = "loop"
    /\ batchCounter \in 0 .. BatchThreshold - 1
    /\ bestHeight = 10
    /\ policy = InitialPolicy
    /\ cfg \in Configs
    /\ logCommitTick = "nil"
    /\ overflowQueue = <<>>
    /\ freeSlots = 0
    /\ failed = FALSE
    /\ \E window \in BOOLEAN :
           channel = [NewChannel(0, 100) EXCEPT !.window = window,
                                                !.localUpdates = batchCounter]
    /\ inc = [h \in 0 .. MaxIncoming - 1 |-> "fwd"]
    /\ circuits = [x \in {} |-> 0]
    /\ nextPkt = 1
    /\ sentAdds = <<>>
    /\ queued = {}
    /\ lastOps = <<>>
    /\ htlcs = <<>>
    /\ calls = [start |-> 1, startErr |-> 0, launched |-> 1,
                stop |-> 0, stopNoop |-> 0, closes |-> 0,
                waiting |-> 0, returned |-> 0]
    /\ cmd = [at |-> "idle", policy |-> ZeroPolicy, done |-> FALSE, n |-> 0]
    /\ syncErr = "none"
    /\ calc = NoCalc

\* The packets of the switch and the batch timer.
BatchNext ==
    \/ DownstreamAddUpTo(MaxHTLCNumber)
    \/ DownstreamBack
    \/ BatchTick

BatchSpec == BatchInit /\ [][BatchNext]_vars

FundsSpec == FundsInit /\ [][QueueNext]_vars

\* The queue filled and drained: the select serves the queue's send on
\* outgoingPkts, which stays ready until it is taken, and the send on
\* htlcUpdates finds its receiver.
DrainNext ==
    \/ Start
    \/ DownstreamAddUpTo(DrainPkts)
    \/ Reprocess
    \/ UpstreamSettleUpTo(DrainRemovals)
    \/ UpstreamCommitSig
    \/ PublishHtlcs
    \/ UpstreamRevoke

DrainSpec ==
    /\ Init
    /\ [][DrainNext]_vars
    /\ SF_vars(Reprocess)
    /\ WF_vars(PublishHtlcs)

\* The link without the switch: the peer's messages and the timers.  The
\* timers' channels are served by the select once they are ready, the send on
\* htlcUpdates finds its receiver, and the peer revokes each commitment the
\* link signed.
LiveNext ==
    \/ Start
    \/ UpstreamFee
    \/ UpstreamCommitSig
    \/ PublishHtlcs
    \/ UpstreamRevoke
    \/ LogCommitTick
    \/ BatchTick

PeerRevokes == ~channel.window /\ UpstreamRevoke /\ ~failed'

LiveSpec ==
    /\ Init
    /\ [][LiveNext]_vars
    /\ WF_vars(LogCommitTick)
    /\ WF_vars(BatchTick)
    /\ WF_vars(PublishHtlcs)
    /\ WF_vars(PeerRevokes)

\* The link as its callers see it: Start and Stop called several times, a
\* caller of UpdateForwardingPolicy, a link that may have to resynchronise,
\* and every way the manager leaves its loop.  The selects serve a case that
\* stays ready (a closed quit, a timer that fired, the resync deadline, a
\* sender on linkControl), the send on htlcUpdates finds its receiver, the
\* goroutines that can take a step take it.
LifeInit == InitWith(SyncConfigs, 100)

LifeNext ==
    \/ Start
    \/ StartAgain
    \/ Stop
    \/ StopAgain
    \/ StopReturn
    \/ SyncBegin
    \/ SyncMessage
    \/ SyncQuit
    \/ SyncDeadline
    \/ UpstreamCommitSig
    \/ PublishHtlcs
    \/ PublishQuit
    \/ LogCommitTick
    \/ BatchTick
    \/ BlockEpoch
    \/ UnilateralClose
    \/ QuitCase
    \/ LinkControl
    \/ UpdateForwardingPolicy
    \/ PolicySendQuit
    \/ PolicyReturn

LifeSpec ==
    /\ LifeInit
    /\ [][LifeNext]_vars
    /\ WF_vars(SyncBegin)
    /\ WF_vars(SyncQuit)
    /\ WF_vars(SyncDeadline)
    /\ WF_vars(PublishHtlcs)
    /\ WF_vars(PublishQuit)
    /\ WF_vars(QuitCase)
    /\ WF_vars(StopReturn)
    /\ SF_vars(LinkControl)
    /\ WF_vars(PolicySendQuit)
    /\ WF_vars(PolicyReturn)


\* ------------------------------------------------------ reading the calls
Calls == DOMAIN lastOps

\* The event the last handler served.
Event == IF lastOps = <<>> THEN "" ELSE lastOps[1].n

Called(op) == \E i \in Calls : lastOps[i] = op

IsWire(op) == op.k = "send" /\ op.r # "err"

\* The calls that settle or fail the incoming HTLC h, or hand it to the switch.
ActsOn(op, h) ==
    /\ op.i = h
    /\ \/ op.k = "cm" /\ op.n \in {"SettleHTLC", "FailHTLC", "MalformedFailHTLC"}
       \/ op.k = "send" /\ op.n \in {"UpdateFufillHTLC", "UpdateFailHTLC",
                                      "UpdateFailMalformedHTLC"}
       \/ op = Forward("Add", h)

\* ----------------------------------------------------------------- claims
\* C1 (as stated): every CommitSig the channel machine accepts is followed,
\* in the same handler, by a wire message, and the first wire message after
\* the acceptance is the RevokeAndAck.
C1_RevokeFollowsAccept ==
    \A i \in Calls :
        lastOps[i] = Cm("ReceiveNewCommitment", "ok", 0) =>
            \E j \in Calls :
                /\ j > i
                /\ lastOps[j] = Send("RevokeAndAck", 0)
                /\ \A m \in (i + 1) .. (j - 1) : lastOps[m].k # "send"

C3_ActsOnlyOnLockedIn ==
    /\ \A h \in DOMAIN inc :
           /\ inc[h] \notin {"none", "recv"} => h \in channel.lockedIn
           /\ (\E i \in Calls : ActsOn(lastOps[i], h)) => h \in channel.lockedIn
    /\ Event = "upstreamAdd" =>
           \A i \in Calls :
               /\ lastOps[i].k \notin {"send", "fwd"}
               /\ lastOps[i].k = "cm" => lastOps[i].n = "ReceiveHTLC"

\* A revocation locked an incoming Add in and the link forwarded it.
C3_Witness ==
    /\ Event = "upstreamRevoke"
    /\ \E h \in DOMAIN inc : inc[h] = "fwd" /\ Called(Forward("Add", h))

\* C4 (as stated): no handler that runs while the overflow queue holds a
\* packet calls AddHTLC.
C4_NoAddWhileQueued ==
    lastOps # <<>> /\ lastOps[1].i > 0 =>
        \A i \in Calls : ~(lastOps[i].k = "cm" /\ lastOps[i].n = "AddHTLC")

\* C4 (amended): an Add that arrives from the switch while the overflow queue
\* holds a packet is appended to the queue and AddHTLC is not called for it.
C4_FreshAddBypasses ==
    Event = "downstreamAdd" /\ lastOps[1].i > 0 =>
        /\ Len(lastOps) = 2
        /\ lastOps[2].k = "enq"
        /\ Len(overflowQueue) > lastOps[1].i

\* A fresh Add found a packet waiting and was queued behind it.
C4_Witness ==
    /\ Event = "downstreamAdd"
    /\ lastOps[1].i > 0
    /\ Len(overflowQueue) > 1

\* C5 (as stated): of two Adds the link has sent, one of which went through
\* the overflow queue, the one the switch submitted first was sent first.
C5_Fifo ==
    \A i \in DOMAIN sentAdds, j \in DOMAIN sentAdds :
        i < j /\ (sentAdds[i] \in queued \/ sentAdds[j] \in queued) =>
            sentAdds[i] < sentAdds[j]

\* C6 (as stated): batchCounter is 0 after every updateCommitTx that returned
\* nil, whether it sent a CommitSig or met ErrNoWindow.
C6_ZeroAfterNilReturn ==
    Called(Uct("sent")) \/ Called(Uct("nowindow")) => batchCounter = 0

\* C6 (amended): batchCounter is 0 after every updateCommitTx that signed and
\* sent a CommitSig.
C6_ZeroAfterCommitSig ==
    Called(Uct("sent")) => batchCounter = 0 /\ Called(Send("CommitSig", 0))

\* The batch timer found updates to commit and the CommitSig went out.
C6_Witness ==
    /\ Event = "batchTick"
    /\ Called(Uct("sent"))
    /\ batchCounter = 0

\* C7 (as stated): between two events of the loop batchCounter is the number
\* of local updates applied since the last CommitSig sent.
C7_CounterMatchesLog ==
    pc = "loop" => batchCounter = channel.localUpdates

\* C8 (as stated): a handler that runs after fail() calls no channel machine
\* operation and sends no wire message.
C8_NothingAfterFail ==
    failed /\ ~Called(Fail) =>
        \A i \in Calls : lastOps[i].k # "cm" /\ lastOps[i].k # "send"

\* C9 (as stated): in the handler that meets it, every channel machine error
\* other than ErrMaxHTLCNumber and ErrNoWindow is followed by a wire message,
\* a failure packet for the switch, or fail().
C9_ErrorsAnswered ==
    \A i \in Calls :
        lastOps[i].k = "cm"
          /\ lastOps[i].r \notin {"ok", "ErrMaxHTLCNumber", "ErrNoWindow"} =>
            \E j \in Calls :
                j > i /\ (lastOps[j] = Fail \/ IsWire(lastOps[j])
                              \/ lastOps[j].k = "fwd")

\* C10 (as stated): once the link has accepted and revoked a commitment that
\* leaves it owing the peer a signature, it sends a CommitSig, unless it
\* failed or left its loop.
Owes == Called(Send("RevokeAndAck", 0)) /\ channel.owes

C10_EventuallySigns ==
    Owes ~> (Called(Send("CommitSig", 0)) \/ failed \/ pc = "exited")

\* C11 (as stated): when the handler that ran last deferred its signature on
\* ErrNoWindow and the next event is a RevokeAndAck the channel machine
\* accepts, the handler of that RevokeAndAck calls SignNextCommitment.
C11_RevocationRetries ==
    [][(/\ Called(Uct("nowindow"))
        /\ lastOps' # lastOps
        /\ lastOps'[1] = Ev("upstreamRevoke", 0)
        /\ \E i \in DOMAIN lastOps' : lastOps'[i] = Cm("ReceiveRevocation", "ok", 0))
          => \E i \in DOMAIN lastOps' :
                 lastOps'[i].k = "cm" /\ lastOps'[i].n = "SignNextCommitment"]_vars

\* The events of the manager before its loop.
SyncEvents == {"", "Start", "resync", "syncMessage", "syncQuit", "syncDeadline"}

\* C12: a link configured with SyncStates is in its loop, or has handled an
\* event of the loop, only after syncChanStates returned nil; when it returned
\* an error (a first message that is not ChannelReestablish, the deadline, the
\* shutdown signal, a failed send) the manager has called fail() and has
\* exited, and no event of the loop was ever handled.
C12_LoopOnlyAfterResync ==
    cfg.SyncStates =>
        /\ pc \in {"loop", "publish"} \/ Event \notin SyncEvents => syncErr = "nil"
        /\ syncErr = "err" =>
               failed /\ pc = "exited" /\ Event \in SyncEvents /\ Called(Fail)
        /\ Event \in {"syncDeadline", "syncQuit"} => syncErr = "err"
        /\ Event = "syncMessage" /\ ~Called(Op("recv", "ChannelReestablish", "", 0))
               => syncErr = "err"

\* The first message of the peer was not a ChannelReestablish: the manager
\* failed the link and exited.
C12_Witness ==
    /\ cfg.SyncStates
    /\ Event = "syncMessage"
    /\ Called(Op("recv", "UpdateAddHTLC", "", 0))
    /\ pc = "exited"

SettleCalls(h) ==
    {i \in Calls : lastOps[i].k = "cm" /\ lastOps[i].n = "SettleHTLC" /\ lastOps[i].i = h}

SettleSends(h) ==
    {i \in Calls : lastOps[i].k = "send" /\ lastOps[i].n = "UpdateFufillHTLC"
                       /\ lastOps[i].i = h}

\* C13: in a resync, SettleHTLC is called at most once and an UpdateFufillHTLC
\* is sent at most once for each incoming HTLC, and SettleHTLC is not called
\* for an HTLC whose settle was re-sent for the peer's ChanSync.
C13_NoSecondSettle ==
    Event = "syncMessage" =>
        \A h \in RestoredHtlcs :
            /\ Cardinality(SettleCalls(h)) <= 1
            /\ Cardinality(SettleSends(h)) <= 1
            /\ Called(Resent([kind |-> "UpdateFufillHTLC", ID |-> h]))
                   => SettleCalls(h) = {}

\* The settle of HTLC 0 was re-sent, and the scan, which knew its preimage
\* too, settled HTLC 1 only.
C13_Witness ==
    /\ Event = "syncMessage"
    /\ Called(Resent([kind |-> "UpdateFufillHTLC", ID |-> 0]))
    /\ Called(Send("UpdateFufillHTLC", 1))
    /\ batchCounter = 1
    /\ syncErr = "nil"

\* The merge of the four fields of a policy: a field of new that is not zero
\* replaces the field of old.
MergeNonZero(old, new) ==
    [f \in DOMAIN old |-> IF new[f] # 0 THEN new[f] ELSE old[f]]

\* C14 (as stated): the step that applies a policy update leaves in each of
\* MinHTLC, BaseFee, FeeRate and TimeLockDelta the value of the request when
\* it is not zero and the former value otherwise, and changes nothing else of
\* the link.
C14_PolicyMerged ==
    [][cmd.at = "send" /\ cmd'.done =>
           /\ policy' = MergeNonZero(policy, cmd.policy)
           /\ UNCHANGED <<started, shutdown, quit, pc, batchCounter, bestHeight,
                          cfg, logCommitTick, overflowQueue, freeSlots, failed,
                          channel, inc, circuits, nextPkt, sentAdds, queued,
                          calls, syncErr, calc>>]_vars

\* C15 (as stated): a caller of UpdateForwardingPolicy of a link that was
\* started, at either of its two selects, returns.
C15_CallerReturns ==
    started = 1 /\ cmd.at \in {"send", "wait"} ~> cmd.at = "returned"

\* C16: once Start was called, one call has launched the one manager and every
\* other call has returned the error; once Stop was called, one call has
\* closed quit, once, and every other call has done nothing.
C16_OneStartOneStop ==
    /\ calls.launched = started
    /\ calls.start > 0 => calls.launched = 1 /\ calls.startErr = calls.start - 1
    /\ calls.closes = shutdown
    /\ calls.stop > 0 =>
           /\ calls.closes = 1
           /\ quit
           /\ calls.stopNoop = calls.stop - 1
           /\ calls.waiting + calls.returned = 1
    /\ calls.stop = 0 => ~quit

\* Start and Stop were each called MaxCalls times.
C16_Witness ==
    /\ calls.start = MaxCalls
    /\ calls.stop = MaxCalls
    /\ calls.startErr > 0
    /\ calls.stopNoop > 0

\* C17: once Stop has closed quit, the manager it launched, wherever it is,
\* returns, and Stop returns.
C17_StopDrains ==
    quit ~> (wg = 0 /\ calls.waiting = 0 /\ calls.returned > 0)

\* Stop found the manager waiting for the peer's ChanSync; the manager has
\* left and Stop has returned.
C17_Witness ==
    /\ calls.returned > 0
    /\ pc = "exited"
    /\ Event = "syncQuit"

NumSignals(ops) == Cardinality({i \in DOMAIN ops : ops[i] = Signal})

\* Packet x waits at place p of the queue and p free-slot signals are pending.
Waits(x, p) ==
    /\ p <= Len(overflowQueue)
    /\ overflowQueue[p].id = x
    /\ freeSlots >= p

C20_BandwidthIsDifference ==
    /\ Bandwidth = AvailableBalance(channel) - TotalHtlcAmount(overflowQueue)
    /\ Bandwidth <= AvailableBalance(channel)

Abs(x) == IF x < 0 THEN -x ELSE x

AdjustCalled == calc.fn = "shouldAdjustCommitFee"

C22_ExpectedFeeExact ==
    calc.fn = "ExpectedFee" =>
        calc.out = calc.args[1].BaseFee
                     + (calc.args[2] * calc.args[1].FeeRate) \div FeeScale

\* The locked-in incoming Adds of the last revocation, by place in htlcs.
LockedAdds == {i \in DOMAIN htlcs : htlcs[i].type = "Add"}

ExitAdds == {i \in LockedAdds : htlcs[i].NextHop = "exit"}

Decoded(pd) == pd.obfCode = "CodeNone" /\ pd.hopCode = "CodeNone"

Hodl == cfg.DebugHTLC /\ cfg.HodlHTLC

\* The exit hop's expiry checks, in integer arithmetic.
ExpiryOk(pd) ==
    /\ pd.Timeout - expiryGraceDelta > bestHeight
    /\ \/ cfg.DebugHTLC
       \/ /\ pd.OutgoingCTLV >= bestHeight + policy.TimeLockDelta
          /\ pd.Timeout = pd.OutgoingCTLV

Unsettled(pd) == pd.invoice.found /\ ~pd.invoice.Settled

\* The link failed the HTLC h: a local fail or a wire failure names it.
FailedHtlc(h) ==
    \E j \in Calls :
        /\ lastOps[j].i = h
        /\ lastOps[j].n \in {"FailHTLC", "MalformedFailHTLC", "UpdateFailHTLC",
                             "UpdateFailMalformedHTLC"}

\* The link settled, or tried to settle, the HTLC h.
SettledHtlc(h) ==
    \E j \in Calls :
        /\ lastOps[j].i = h
        /\ lastOps[j].n \in {"SettleHTLC", "UpdateFufillHTLC"}

\* C23: a locked-in exit-hop HTLC whose invoice exists, is unsettled and has
\* value 0, and whose expiry checks pass, is never failed, whatever its
\* amount and the amount of its onion are: the link (when it does not hold
\* exit-hop HTLCs back) calls SettleHTLC for it and, when the channel machine
\* and the registry accept, sends UpdateFufillHTLC.
C23_ZeroInvoiceTakesAnyAmount ==
    \A i \in ExitAdds :
        LET pd == htlcs[i] IN
        Decoded(pd) /\ Unsettled(pd) /\ pd.invoice.Value = 0 /\ ExpiryOk(pd) =>
            /\ ~FailedHtlc(pd.idx)
            /\ ~Hodl =>
                   /\ Called(Cm("SettleHTLC", IF pd.settleErr THEN "err" ELSE "ok",
                                pd.idx))
                   /\ ~pd.settleErr /\ ~pd.invoiceErr =>
                          /\ Called(Send("UpdateFufillHTLC", pd.idx))
                          /\ inc[pd.idx] = "settled"

C23_Witness ==
    \E i \in ExitAdds :
        /\ Unsettled(htlcs[i])
        /\ htlcs[i].invoice.Value = 0
        /\ htlcs[i].Amount = 0
        /\ htlcs[i].AmountToForward = 9
        /\ ~cfg.DebugHTLC
        /\ Called(Send("UpdateFufillHTLC", htlcs[i].idx))

\* The exit hop's first check: the HTLC does not expire too soon.
NotTooSoon(pd) == pd.Timeout - expiryGraceDelta > bestHeight

WrongAmount(pd) ==
    pd.Amount < pd.invoice.Value \/ pd.AmountToForward # pd.invoice.Value

\* C24 (as stated): outside debug mode a locked-in exit-hop HTLC (that does
\* not expire too soon) for an unsettled invoice of value > 0, with an amount
\* below the invoice's value or an onion amount that differs from it, is
\* failed with IncorrectPaymentAmount and is not settled.
C24_WrongAmountIsFailed ==
    \A i \in ExitAdds :
        LET pd == htlcs[i] IN
        /\ ~cfg.DebugHTLC
        /\ Decoded(pd) /\ NotTooSoon(pd) /\ Unsettled(pd)
        /\ pd.invoice.Value > 0 /\ WrongAmount(pd)
        => /\ Called(SendFail("IncorrectPaymentAmount", pd.idx))
           /\ ~SettledHtlc(pd.idx)
           /\ ~Called(Registry("SettleInvoice", "ok"))

\* C25 (as stated): with HodlHTLC set, a locked-in exit-hop Add is left
\* pending: no SettleHTLC, no SettleInvoice, no UpdateFufillHTLC.
C25_HodlNeverSettles ==
    cfg.HodlHTLC =>
        \A i \in ExitAdds :
            Decoded(htlcs[i]) =>
                /\ ~SettledHtlc(htlcs[i].idx)
                /\ \A j \in Calls : lastOps[j].n # "SettleInvoice"
                /\ inc[htlcs[i].idx] \notin {"settled", "failed"}

\* C25 (amended): with HodlHTLC and DebugHTLC both set, a locked-in exit-hop
\* Add is left pending: no SettleHTLC, no SettleInvoice, no UpdateFufillHTLC,
\* and no failure either.
C25_DebugHodlNeverSettles ==
    Hodl =>
        \A i \in ExitAdds :
            Decoded(htlcs[i]) =>
                /\ ~SettledHtlc(htlcs[i].idx)
                /\ ~FailedHtlc(htlcs[i].idx)
                /\ \A j \in Calls : lastOps[j].n # "SettleInvoice"
                /\ inc[htlcs[i].idx] = "hold"

C25_Witness ==
    /\ Hodl
    /\ Event = "upstreamRevoke"
    /\ \E i \in ExitAdds :
           /\ htlcs[i] = [BaseExit EXCEPT !.idx = htlcs[i].idx]
           /\ inc[htlcs[i].idx] = "hold"

ForwardAdds == {i \in LockedAdds : htlcs[i].NextHop # "exit" /\ Decoded(htlcs[i])}

\* base_fee + amount * fee_rate / 1000000 in integer arithmetic.
FeeOf(amount) == policy.BaseFee + (amount * policy.FeeRate) \div FeeScale

\* The rules of a forwarding hop, in integer arithmetic.
ExpiresTooSoon(pd) == pd.Timeout - policy.TimeLockDelta <= bestHeight

BelowMinimum(pd) == pd.Amount < policy.MinHTLC

WrongTimeLock(pd) == pd.Timeout - policy.TimeLockDelta < pd.OutgoingCTLV

\* The Add breaks a rule of the link: its onion does not decode, or an amount,
\* expiry or fee rule of its hop is not met.
BreaksRule(pd) ==
    \/ ~Decoded(pd)
    \/ /\ pd.NextHop = "exit"
       /\ ~Hodl
       /\ \/ ~NotTooSoon(pd)
          \/ Unsettled(pd) /\ ~cfg.DebugHTLC /\ pd.invoice.Value > 0 /\ WrongAmount(pd)
          \/ Unsettled(pd) /\ ~ExpiryOk(pd)
    \/ /\ pd.NextHop # "exit"
       /\ \/ ExpiresTooSoon(pd)
          \/ BelowMinimum(pd)
          \/ pd.Amount - FeeOf(pd.AmountToForward) < pd.AmountToForward
          \/ WrongTimeLock(pd)

\* A wire failure for the HTLC h follows the local fail of h.
Answered(h) ==
    \E j \in Calls, m \in Calls :
        /\ j < m
        /\ lastOps[j] \in {Cm("FailHTLC", "ok", h), Cm("MalformedFailHTLC", "ok", h)}
        /\ lastOps[m].k = "send"
        /\ lastOps[m].n \in {"UpdateFailHTLC", "UpdateFailMalformedHTLC"}
        /\ lastOps[m].i = h

\* fail() was called for something else than a commitment update that failed.
FailedByRule ==
    \E j \in Calls : lastOps[j] = Fail /\ lastOps[j - 1] # Uct("err")

\* The unsigned subtractions of the forwarding hop do not wrap for pd.
NoWrap(pd) ==
    pd.Timeout >= policy.TimeLockDelta /\ pd.Amount >= FeeOf(pd.AmountToForward)

\* C26 (as stated): a locked-in incoming Add that breaks a rule (and whose
\* failure can be encrypted and applied) is answered with a wire failure
\* after its local fail, and fail() is not called for it.
C26_RuleBreakersAnswered ==
    \A i \in LockedAdds :
        LET pd == htlcs[i] IN
        BreaksRule(pd) /\ NoWrap(pd) /\ ~pd.encryptErr /\ ~pd.failErr =>
            Answered(pd.idx) /\ ~FailedByRule

\* The packets handed to the switch for the descriptor pd.
Forwards(pd) == {j \in Calls : lastOps[j] = Forward(pd.type, pd.idx)}

\* C27 (as stated): each locked-in Settle or Fail descriptor of a revocation
\* yields exactly one packet handed to the switch.
C27_RemovalsForwarded ==
    \A i \in DOMAIN htlcs :
        htlcs[i].type \in {"Settle", "Fail"} => Cardinality(Forwards(htlcs[i])) = 1

\* The failure of an Add that can be answered: the ChannelUpdate is there
\* and the failure is encrypted and applied.
Answerable(pd) == ~pd.updErr /\ ~pd.encryptErr /\ ~pd.failErr

\* C28 (as stated): a forwarding-hop Add that passed the expiry and minimum
\* checks (and whose failure can be answered) is rejected with FeeInsufficient exactly when its amount less the
\* fee on its amount is below the amount to forward.
C28_FeeOnIncomingAmount ==
    \A i \in ForwardAdds :
        LET pd == htlcs[i] IN
        ~ExpiresTooSoon(pd) /\ ~BelowMinimum(pd) /\ Answerable(pd) /\ NoWrap(pd) =>
            (Called(SendFail("FeeInsufficient", pd.idx))
                 <=> pd.Amount - FeeOf(pd.Amount) < pd.AmountToForward)

\* C29 (as stated): a forwarding-hop Add with timeout - time_lock_delta <=
\* best_height is rejected with ExpiryTooSoon, or TemporaryChannelFailure
\* without a ChannelUpdate, and is not forwarded.
C29_TooSoonNeverForwarded ==
    \A i \in ForwardAdds :
        LET pd == htlcs[i] IN
        ExpiresTooSoon(pd) =>
            /\ ~Called(Forward("Add", pd.idx))
            /\ ~pd.encryptErr /\ ~pd.failErr =>
                   Called(SendFail(IF pd.updErr THEN "TemporaryChannelFailure"
                                   ELSE "ExpiryTooSoon", pd.idx))

\* C30 (as stated): an Add is forwarded only if its amount covers the amount
\* to forward and the fee of the policy.
C30_ForwardedCoversFee ==
    \A i \in ForwardAdds :
        LET pd == htlcs[i] IN
        Called(Forward("Add", pd.idx)) =>
            /\ pd.Amount >= FeeOf(pd.AmountToForward)
            /\ pd.Amount >= pd.AmountToForward + FeeOf(pd.AmountToForward)

\* ------------------------------------------------------------------- C31
\* The local removals of incoming HTLCs and the wire message of each.
LocalRemovals == {"SettleHTLC", "FailHTLC", "MalformedFailHTLC"}

WireOf(name) ==
    CASE name = "SettleHTLC"        -> "UpdateFufillHTLC"
      [] name = "FailHTLC"          -> "UpdateFailHTLC"
      [] name = "MalformedFailHTLC" -> "UpdateFailMalformedHTLC"

Applied(ops, i) == ops[i].k = "cm" /\ ops[i].n \in LocalRemovals /\ ops[i].r = "ok"

Announces(ops, j, i) ==
    ops[j].k = "send" /\ ops[j].n = WireOf(ops[i].n) /\ ops[j].i = ops[i].i

Signs(ops, j) == ops[j] = Send("CommitSig", 0)

\* The handler applied a local removal and ended without its wire message.
Unannounced(ops) ==
    \E i \in DOMAIN ops :
        Applied(ops, i) /\ ~\E j \in DOMAIN ops : j > i /\ Announces(ops, j, i)

\* C31 (as stated): a local Settle or Fail is followed by its wire message
\* before the link sends a CommitSig: within the handler no CommitSig stands
\* between the two, and a handler that ended without the wire message is not
\* followed by a handler that sends a CommitSig.
C31_WireBeforeCommitSig ==
    [][ /\ \A i \in DOMAIN lastOps' :
               Applied(lastOps', i) =>
                   \A k \in DOMAIN lastOps' :
                       k > i /\ Signs(lastOps', k) =>
                           \E j \in i + 1 .. k - 1 : Announces(lastOps', j, i)
        /\ Unannounced(lastOps) => \A k \in DOMAIN lastOps' : ~Signs(lastOps', k)
      ]_vars

\* ------------------------------------------------------------------- C32
\* The resync re-sent a message and the send returned an error.
ResendFailed ==
    /\ Event = "syncMessage"
    /\ \E i \in Calls :
           /\ lastOps[i].k = "send" /\ lastOps[i].r = "err"
           /\ lastOps[i].n \in {"UpdateAddHTLC", "UpdateFufillHTLC"}

\* C32 (as stated): when the send of a replayed message fails during the
\* resync, the resync fails: fail() is called and the loop is not entered.
C32_ResendErrorIsFatal ==
    ResendFailed => Called(Fail) /\ pc = "exited"

\* ------------------------------------------------------------------- C33
\* The settle of incoming HTLC h was among the messages replayed.
Replayed(h) ==
    \E i \in Calls : /\ lastOps[i].k = "send" /\ lastOps[i].n = "UpdateFufillHTLC"
                     /\ lastOps[i].r \in {"resend", "err"} /\ lastOps[i].i = h

\* The active HTLCs the scan of a resync has to settle.
DueSettles ==
    {i \in DOMAIN htlcs :
        htlcs[i].Incoming /\ htlcs[i].known /\ ~Replayed(htlcs[i].HtlcIndex)}

\* The calls of the scan: the settles, the invoices settled, the settles sent.
ScanSettles == {i \in Calls : lastOps[i].k = "cm" /\ lastOps[i].n = "SettleHTLC"}
ScanInvoices == {i \in Calls : lastOps[i] = Registry("SettleInvoice", "ok")}
ScanSends ==
    {i \in Calls : lastOps[i].k = "send" /\ lastOps[i].n = "UpdateFufillHTLC"
                       /\ lastOps[i].r = ""}

Sampled(feePerKw) ==
    /\ Event = "blockEpoch"
    /\ Called(Query("IsInitiator", TRUE))
    /\ Called(Sample("ok", feePerKw))

SampledFees == {lastOps[i].i : i \in {j \in Calls : lastOps[j].k = "fee"}}

\* An UpdateFee was sent and SignNextCommitment called after it.
FeeSentThenSigned ==
    \E i \in Calls, j \in Calls :
        /\ i < j
        /\ lastOps[i] = Send("UpdateFee", 0)
        /\ lastOps[j].k = "cm" /\ lastOps[j].n = "SignNextCommitment"

NonInitiatorEpoch ==
    /\ pc = "loop"
    /\ lastOps' # <<>> /\ lastOps'[1].n = "blockEpoch"
    /\ \E i \in DOMAIN lastOps' : lastOps'[i] = Query("IsInitiator", FALSE)
    /\ UNCHANGED <<started, shutdown, calls, cmd>>

\* C35: for a link that is not the initiator a block epoch sets bestHeight to
\* the height of the epoch and does nothing else: no fee is sampled, no
\* channel machine operation is called, no message is sent, and batchCounter,
\* the policy and the channel machine stay as they are.
C35_NonInitiatorOnlyHeight ==
    [][NonInitiatorEpoch =>
           /\ bestHeight' = lastOps'[1].i
           /\ \A i \in DOMAIN lastOps' : lastOps'[i].k \notin {"fee", "cm", "send", "uct"}
           /\ pc' = "loop"
           /\ UNCHANGED <<batchCounter, policy, channel, logCommitTick,
                          overflowQueue, failed, circuits>>]_vars

\* A link with an update pending met the epoch of height 11 as non-initiator.
C35_Witness ==
    /\ lastOps = <<Ev("blockEpoch", 11), Query("IsInitiator", FALSE)>>
    /\ bestHeight = 11
    /\ batchCounter = 1
    /\ channel.localUpdates = 1

\* ------------------------------------------------------------------- C36
\* The step is a handler of the manager (not a call of Start, Stop or
\* UpdateForwardingPolicy) that handled a downstream packet.
DownstreamStep ==
    /\ pc = "loop"
    /\ lastOps' # <<>>
    /\ lastOps'[1].n \in {"downstreamAdd", "downstreamSettle", "downstreamFail",
                          "reprocess"}
    /\ UNCHANGED <<started, shutdown, calls, cmd>>

\* The answer of the channel machine to the AddHTLC of the step.
AddAnswered(res) ==
    /\ DownstreamStep
    /\ \E i \in DOMAIN lastOps' :
           /\ lastOps'[i].k = "cm" /\ lastOps'[i].n = "AddHTLC"
           /\ lastOps'[i].r = res

\* The packet the step handled, and the queue it found once its event was
\* taken (the packet of a reprocess has left the queue).
HandledAdd ==
    IF lastOps'[1].n = "reprocess" THEN Head(overflowQueue) ELSE AddPacket(nextPkt)

QueueFound ==
    IF lastOps'[1].n = "reprocess" THEN Tail(overflowQueue) ELSE overflowQueue

\* C36: when AddHTLC answers ErrMaxHTLCNumber the packet is appended to the
\* overflow queue and nothing else is done: no message, no circuit, no packet
\* for the switch, no signature; batchCounter and the channel machine stay.
C36_FullOnlyQueues ==
    [][AddAnswered("ErrMaxHTLCNumber") =>
           /\ overflowQueue' = Append(QueueFound, HandledAdd)
           /\ \A i \in DOMAIN lastOps' :
                  lastOps'[i].k \notin {"send", "circuit", "fwd", "uct", "fail"}
           /\ Cardinality({i \in DOMAIN lastOps' : lastOps'[i].k = "cm"}) = 1
           /\ pc' = "loop"
           /\ UNCHANGED <<batchCounter, channel, circuits, sentAdds, inc,
                          logCommitTick, failed, bestHeight, policy>>]_vars

\* The queue handed an Add over again, the commitment was still full, and the
\* Add went back behind the packet that waited with it.
C36_Witness ==
    /\ Event = "reprocess"
    /\ Called(Cm("AddHTLC", "ErrMaxHTLCNumber", 0))
    /\ Len(overflowQueue) = 2
    /\ Called(Enqueue(overflowQueue[2].id))

\* ------------------------------------------------------------------- C37
\* The packets the step handed to the switch.
SwitchPackets == {i \in DOMAIN lastOps' : lastOps'[i].k = "fwd"}

\* C37 (as stated): when AddHTLC answers another error than ErrMaxHTLCNumber,
\* the link hands the switch one Fail packet for the packet it handled, a
\* local failure exactly when the packet had no error encrypter; it sends no
\* message, registers no circuit, and leaves batchCounter and the queue alone.
C37_RefusedAddFailsBack ==
    [][AddAnswered("err") =>
           /\ Cardinality(SwitchPackets) = 1
           /\ \A i \in SwitchPackets :
                  lastOps'[i] = Forward(IF HandledAdd.obf THEN "Fail" ELSE "LocalFail",
                                        HandledAdd.id)
           /\ \A i \in DOMAIN lastOps' : lastOps'[i].k \notin {"send", "circuit"}
           /\ batchCounter' = batchCounter
           /\ overflowQueue' = QueueFound]_vars

\* ------------------------------------------------------------------- C38
\* The step applied a downstream packet to the channel machine.
PacketApplied(name) ==
    /\ DownstreamStep
    /\ \E i \in DOMAIN lastOps' :
           lastOps'[i].k = "cm" /\ lastOps'[i].n = name /\ lastOps'[i].r = "ok"

\* The step called SignNextCommitment.
SignTried ==
    \E i \in DOMAIN lastOps' :
        lastOps'[i].k = "cm" /\ lastOps'[i].n = "SignNextCommitment"

SignSent == \E i \in DOMAIN lastOps' : lastOps'[i] = Uct("sent")

\* C38: a downstream packet applied to the channel machine is counted in
\* batchCounter, and the handler tries to sign exactly when the packet is a
\* Settle or a Fail or the count has reached 10; an Add that leaves the count
\* below 10 is left to the batch timer.  (A signature sent resets the count.)
C38_SignWhenDue ==
    [][\A name \in {"AddHTLC", "SettleHTLC", "FailHTLC"} :
           PacketApplied(name) =>
               /\ SignTried <=> (name # "AddHTLC" \/ batchCounter + 1 >= BatchThreshold)
               /\ batchCounter' = IF SignSent THEN 0 ELSE batchCounter + 1
               /\ name = "AddHTLC" /\ batchCounter + 1 < BatchThreshold
                      => \A i \in DOMAIN lastOps' : lastOps'[i].k \notin {"uct", "fail"}
      ]_vars

\* The tenth update since the last signature was an Add: the handler signed.
C38_Witness ==
    /\ Event = "downstreamAdd"
    /\ Called(Cm("AddHTLC", "ok", 0))
    /\ Called(Send("CommitSig", 0))
    /\ batchCounter = 0

\* ------------------------------------------------------------------- C39
\* C39 (as stated): once the manager has returned, by whatever path, the
\* chain events subscription, the block epoch stream, the batch timer and the
\* channel machine are released.
C39_AllReleasedOnStop ==
    pc = "exited" => \A r \in DOMAIN Released : Released[r]

\* ------------------------------------------------------------------- C40
\* C40 (as stated): a handler of the manager that runs when Stop has stopped
\* the channel machine calls no channel machine operation.
C40_NoCallsAfterStop ==
    [][channel.stopped /\ lastOps' # lastOps
           /\ UNCHANGED <<started, shutdown, calls, cmd>>
           => \A i \in DOMAIN lastOps' : lastOps'[i].k # "cm"]_vars

=============================================================================
